---------------------------- MODULE Spec2Model ----------------------------
(***************************************************************************)
(* Model of the astrological engine src/src/services/astro_engine.py.      *)
(*                                                                         *)
(* One request is modelled at a time; the variable op names the function   *)
(* that runs:                                                              *)
(*   calculate_transits              the transit timing search             *)
(*   calculate_natal_with_formulas   the natal chart                       *)
(*   calculate_local_natal           the relocated natal chart             *)
(*   find_aspect                     the aspect classifier, applied to an  *)
(*                                   ordered pair and to the swapped pair  *)
(*                                                                         *)
(* Numbers.  Time is counted in ticks and longitude in lon-units, both     *)
(* integers.  The civil units (second, minute, hour) keep their ratios.    *)
(* The scan steps keep their ratios 0.1 h : 0.25 h : 1 h = 2 : 5 : 20 but  *)
(* one twentieth of an hour lasts UnitSecs seconds instead of 180, and a   *)
(* day of the search window lasts DayUnits twentieths instead of 480: the  *)
(* scan takes fewer samples, the code that handles a sample is unchanged.  *)
(***************************************************************************)
EXTENDS Integers, Sequences, FiniteSets, TLC

VARIABLES
    op,              \* the function the request runs
    pc,              \* position inside it
    eph,             \* the ephemeris oracle the request runs against
    timezone_hours,  \* calculate_transits: the caller's display offset
    days,            \* calculate_transits: length of the window in days
    ti, ni, ai,      \* loop positions: transiting body, natal body, aspect
    jd,              \* the scan's current sample time
    prev_orb,        \* orb at the previous good sample (None: no sample yet)
    prev_direction,  \* "None" | "True" | "False"
    jd_left,         \* refinement bracket
    jd_right,
    iter,            \* iterations of the refinement loop done
    jd_exact,        \* time the refinement settled on
    transits,        \* the events appended so far
    exc,             \* the exception that ended the request ("" if none)
    skipped,         \* samples the scan skipped after a failed oracle call
    planets_data,    \* natal chart: the bodies computed so far, in dict order
    retro_planets,   \* natal chart: names of the retrograde bodies
    warnings,        \* natal chart: bodies logged as failed
    pi,              \* natal chart: loop position in PLANETS_ALL
    house_cusps,     \* natal chart: the cusps swe.houses returned
    chart,           \* natal chart: the returned chart
    fa,              \* find_aspect: arguments and the two results
    rh,              \* get_planet_ruled_houses: arguments and locals
    tc,              \* datetime_to_julian and back: arguments and locals
    rp,              \* find_retrograde_periods_for_year: oracle and locals
    mp,              \* find_next_new_moon / find_next_full_moon: locals
    call             \* a function called on its own: arguments and locals

vars == <<op, pc, eph, timezone_hours, days, ti, ni, ai, jd, prev_orb,
          prev_direction, jd_left, jd_right, iter, jd_exact, transits, exc,
          skipped, planets_data, retro_planets, warnings, pi, house_cusps, chart,
          fa, rh, tc, rp, mp, call>>

transitVars == <<timezone_hours, days, ti, ni, ai, jd, prev_orb,
                 prev_direction, jd_left, jd_right, iter, jd_exact, transits,
                 skipped>>
natalVars == <<planets_data, retro_planets, warnings, pi, house_cusps, chart>>
otherCalls == <<rh, tc, rp, mp, call>>
callVars == <<fa, rh, tc, rp, mp, call>>

-----------------------------------------------------------------------------
(* Bounds of the model *)

\* seconds in one twentieth of an hour at the model's scan scale (180 in the program)
UnitSecs == 4
\* twentieths of an hour in one day of the search window (480 in the program)
DayUnits == 12
\* scan steps a transiting body needs to move one degree
OrbSteps == 4
\* largest number of days of a search window
MaxDays == 1
\* bodies of PLANETS_ALL the transit search iterates over (12 in the program)
NumTransiting == 2

-----------------------------------------------------------------------------
(* Arithmetic helpers *)

Abs(x) == IF x < 0 THEN -x ELSE x

Min2(a, b) == IF a < b THEN a ELSE b

RECURSIVE Pow2Above(_)
\* the least power of two greater than n
Pow2Above(n) == IF n < 1 THEN 1 ELSE 2 * Pow2Above(n \div 2)

\* ticks in a second: fine enough for every midpoint the refinement computes
TicksPerSec == 2 * Pow2Above(20 * UnitSecs)

\* 1/86400 of a day, the precision the refinement loop stops at
SecondJd == TicksPerSec

\* one hour of civil time
HourJd == 3600 * TicksPerSec

\* one day of the search window
DayJd == DayUnits * UnitSecs * TicksPerSec

\* lon-units in one degree
Deg == OrbSteps * 20 * UnitSecs * TicksPerSec

Circle == 360 * Deg

None == -1

-----------------------------------------------------------------------------
(* Static tables *)

\* PLANETS_ALL = {**PLANETS, **SPECIAL_POINTS}, in the dict's iteration order
PLANETS_ALL == <<"Sun", "Moon", "Mercury", "Venus", "Mars", "Jupiter", "Saturn",
                 "Uranus", "Neptune", "Pluto", "NorthNode", "Lilith">>

\* the keys of ASPECTS, in the dict's iteration order
ASPECTS == <<0, 60, 90, 120, 180>>

\* TRANSIT_ORBS.get(aspect_angle, 1.0): one degree for every aspect
TRANSIT_ORBS(aspect_angle) == 1 * Deg

\* step_hours of a transiting body, in twentieths of an hour
StepUnits(transit_name) ==
    IF transit_name = "Moon" THEN 2
    ELSE IF transit_name \in {"Sun", "Mercury", "Venus", "Mars"} THEN 5
    ELSE 20

\* step_jd = step_hours / 24.0
step_jd(transit_name) == StepUnits(transit_name) * UnitSecs * TicksPerSec

-----------------------------------------------------------------------------
(* The ephemeris oracle swe.calc_ut.  eph fixes one trajectory per body:   *)
(* the Moon passes the exact aspect eph.angle with natal body eph.natal at *)
(* time eph.tc, moving in direction eph.dir, and turns round at eph.turn   *)
(* (a station); every other body moves forward far from any aspect.  The   *)
(* call fails at the times in eph.fail; eph.t0 is the oracle's epoch.      *)

NoTurn == None

\* lon-units a body moves per tick: every body moves 1/OrbSteps degree per scan step
Vel(body) == 20 \div StepUnits(body)

\* the natal chart handed to calculate_transits: natal_data['planets']
NatalNames == <<"Sun", "Moon">>

NatalLon(natal_name) == IF natal_name = "Sun" THEN 350 * Deg ELSE 27 * Deg

\* midnight of start_date as a tick count of civil time
MidnightJd == 24 * HourJd

\* the longitude at which the Moon makes the exact aspect
TargetLon == (NatalLon(eph.natal) + eph.side * eph.angle * Deg + Circle) % Circle

\* the time axis folded at the station
Tau(t) == IF eph.turn = NoTurn \/ t <= eph.turn THEN t ELSE 2 * eph.turn - t

OracleLon(t, body) ==
    IF body = "Moon"
    THEN (TargetLon + eph.dir * Vel(body) * (Tau(t) - eph.tc) + 4 * Circle) % Circle
    ELSE (10 * Deg + Vel(body) * (t - eph.t0) + 4 * Circle) % Circle

OracleSpeed(t, body) ==
    IF body = "Moon"
    THEN IF eph.turn = NoTurn \/ t < eph.turn THEN eph.dir * Vel(body)
         ELSE IF t = eph.turn THEN 0 ELSE -eph.dir * Vel(body)
    ELSE Vel(body)

\* swe.calc_ut(jd, id, flags): raises, or returns the longitude and the speed
CalcUtFails(t, body) == <<body, t>> \in eph.fail

CalcUt(t, body) == [lon |-> OracleLon(t, body), speed |-> OracleSpeed(t, body)]

-----------------------------------------------------------------------------
(* Time conversion *)

\* datetime_to_julian(dt, timezone_hours): civil time minus the offset, in UT
datetime_to_julian(dt, tz) == dt - tz * HourJd

\* The two module-level definitions of julian_to_datetime, in source order.
\* A def statement rebinds the module's global name, so a call made after the
\* module is loaded reaches the last one.
ModuleDefs ==
    <<[name |-> "julian_to_datetime", line |-> 1885, params |-> 2, required |-> 1],
      [name |-> "julian_to_datetime", line |-> 2192, params |-> 1, required |-> 1]>>

\* the definition a global name is bound to once the module is loaded
Resolve(name) ==
    LET idx == {i \in 1..Len(ModuleDefs) : ModuleDefs[i].name = name}
    IN  ModuleDefs[CHOOSE i \in idx : \A j \in idx : j <= i]

\* body of the definition at line 1885: UTC truncated to the second, plus the offset
julian_to_datetime_1885(t, tz) == (t \div SecondJd) * SecondJd + tz * HourJd

\* body of the definition at line 2192: truncated to the minute, no offset
julian_to_datetime_2192(t) == (t \div (60 * SecondJd)) * (60 * SecondJd)

TypeError == [raised |-> "TypeError"]

\* julian_to_datetime(*args) as Python evaluates the call
julian_to_datetime(args) ==
    LET d == Resolve("julian_to_datetime")
    IN  IF Len(args) > d.params \/ Len(args) < d.required THEN TypeError
        ELSE IF d.line = 1885
             THEN [raised |-> "", value |->
                     julian_to_datetime_1885(args[1], IF Len(args) > 1 THEN args[2] ELSE 0)]
             ELSE [raised |-> "", value |-> julian_to_datetime_2192(args[1])]

-----------------------------------------------------------------------------
(* Aspects *)

\* is_aspect_applying(lon1, lon2, speed1, speed2, aspect_angle)
is_aspect_applying(lon1, lon2, speed1, speed2, angle) ==
    LET d0 == lon1 - lon2
        diff == IF d0 < -180 * Deg THEN d0 + 360 * Deg
                ELSE IF d0 > 180 * Deg THEN d0 - 360 * Deg ELSE d0
        relative_speed == speed1 - speed2
        target_positive == angle * Deg
        target_negative == -(angle * Deg)
        dist_to_positive == Abs(diff - target_positive)
        dist_to_negative == Abs(diff - target_negative)
    IN  IF angle = 0
        THEN IF diff > 0 THEN relative_speed < 0 ELSE relative_speed > 0
        ELSE IF angle = 180
        THEN IF diff > 0
             THEN IF diff < 180 * Deg THEN relative_speed > 0 ELSE relative_speed < 0
             ELSE IF diff > -180 * Deg THEN relative_speed < 0 ELSE relative_speed > 0
        ELSE IF dist_to_positive < dist_to_negative
             THEN \/ (diff < target_positive /\ relative_speed > 0)
                  \/ (diff > target_positive /\ relative_speed < 0)
             ELSE \/ (diff < target_negative /\ relative_speed > 0)
                  \/ (diff > target_negative /\ relative_speed < 0)

\* ASPECTS_NATURE, in the dict's iteration order
\* a table whose conjunction is a tense aspect
ASPECTS_NATURE_tense ==
    <<[angle |-> 0,   name |-> "Conjunction", nature |-> "-"],
      [angle |-> 60,  name |-> "Sextile",     nature |-> "+"],
      [angle |-> 90,  name |-> "Square",      nature |-> "-"],
      [angle |-> 120, name |-> "Trine",       nature |-> "+"],
      [angle |-> 180, name |-> "Opposition",  nature |-> "-"]>>

\* ASPECTS_NATURE: the angles in the order of the dict
ASPECTS_NATURE ==
    <<[angle |-> 0,   name |-> "Conjunction", nature |-> "+-"],
      [angle |-> 60,  name |-> "Sextile",     nature |-> "+"],
      [angle |-> 90,  name |-> "Square",      nature |-> "-"],
      [angle |-> 120, name |-> "Trine",       nature |-> "+"],
      [angle |-> 180, name |-> "Opposition",  nature |-> "-"]>>

ORB_PLANET_ORDER ==
    <<"Sun", "Moon", "Mercury", "Venus", "Mars", "Jupiter", "Saturn", "Uranus",
      "Neptune", "Pluto", "Lilith">>

\* ORB_MATRIX, in half degrees (17 is 8.5 degrees)
ORB_MATRIX ==
    <<<<17, 17, 17, 17, 17, 17, 18, 17, 17, 13, 10>>,
      <<17, 17, 17, 17, 17, 17, 18, 17, 17, 13, 10>>,
      <<17, 17, 17, 17, 17, 17, 18, 17, 17, 13, 10>>,
      <<17, 17, 17, 17, 17, 17, 18, 17, 17, 13, 10>>,
      <<17, 17, 17, 17, 17, 17, 18, 17, 17, 13, 10>>,
      <<17, 17, 17, 17, 17, 17, 18, 17, 17, 13, 10>>,
      <<18, 18, 18, 18, 18, 18, 18, 18, 18, 14, 10>>,
      <<17, 17, 17, 17, 17, 17, 18, 17, 17, 13, 10>>,
      <<17, 17, 17, 17, 17, 17, 18, 17, 17, 13, 10>>,
      <<13, 13, 13, 13, 13, 13, 14, 13, 13, 13, 10>>,
      <<10, 10, 10, 10, 10, 10, 10, 10, 10, 10, 10>>>>

\* lon-units in half a degree
HalfDeg == Deg \div 2

\* MALEFIC_PLANETS.get(name, False)
MALEFIC_PLANETS(name) ==
    name \in {"Mars", "Saturn", "Uranus", "Neptune", "Pluto", "Lilith"}

\* list.index(name): the position of name, 0 when it raises ValueError
IndexOf(seq, name) ==
    IF \E i \in 1..Len(seq) : seq[i] = name
    THEN CHOOSE i \in 1..Len(seq) : seq[i] = name /\ \A j \in 1..(i - 1) : seq[j] # name
    ELSE 0

\* a lookup that reads the diagonal of the first planet's row
get_orb_for_planets_row(planet1, planet2) ==
    LET idx1 == IndexOf(ORB_PLANET_ORDER, planet1)
        idx2 == IndexOf(ORB_PLANET_ORDER, planet2)
    IN  IF idx1 = 0 \/ idx2 = 0 THEN 10 * HalfDeg
        ELSE ORB_MATRIX[idx1][idx1] * HalfDeg

\* get_orb_for_planets(planet1, planet2), in lon-units
get_orb_for_planets(planet1, planet2) ==
    LET idx1 == IndexOf(ORB_PLANET_ORDER, planet1)
        idx2 == IndexOf(ORB_PLANET_ORDER, planet2)
    IN  IF idx1 = 0 \/ idx2 = 0 THEN 10 * HalfDeg
        ELSE ORB_MATRIX[idx1][idx2] * HalfDeg

\* diff = abs(a - b); if diff > 180: diff = 360 - diff
AngSep(a, b) == LET d == Abs(a - b) IN IF d > 180 * Deg THEN 360 * Deg - d ELSE d

\* find_aspect returned None
NoAspect ==
    [found |-> FALSE, angle |-> -1, name |-> "", orb |-> -1, nature |-> "",
     max_orb |-> -1, applying |-> "None"]

\* the absent speed argument (speed=None)
NoSpeed == 1000000

\* a test that leaves out the orb equal to the tolerance
WithinOrbStrict(orb, max_orb) == orb < max_orb

\* the test of one angle in the loop of find_aspect: orb <= max_orb
WithinOrb(orb, max_orb) == orb <= max_orb

\* find_aspect(lon1, lon2, planet1_name, planet2_name, speed1, speed2);
\* a name that is None or empty is ""
find_aspect(lon1, lon2, planet1_name, planet2_name, speed1, speed2) ==
    LET diff == AngSep(lon1, lon2)
        max_orb == IF planet1_name # "" /\ planet2_name # ""
                   THEN get_orb_for_planets(planet1_name, planet2_name)
                   ELSE 17 * HalfDeg
        hits == {i \in 1..Len(ASPECTS_NATURE) :
                    WithinOrb(Abs(diff - ASPECTS_NATURE[i].angle * Deg), max_orb)}
    IN  IF hits = {} THEN NoAspect
        ELSE LET i == CHOOSE k \in hits : \A j \in hits : k <= j
                 data == ASPECTS_NATURE[i]
             IN  [found |-> TRUE,
                  angle |-> data.angle,
                  name |-> data.name,
                  orb |-> Abs(diff - data.angle * Deg),
                  nature |-> data.nature,
                  max_orb |-> max_orb,
                  applying |->
                      IF speed1 # NoSpeed /\ speed2 # NoSpeed
                      THEN IF is_aspect_applying(lon1, lon2, speed1, speed2, data.angle)
                           THEN "True" ELSE "False"
                      ELSE "None"]

-----------------------------------------------------------------------------
(* Houses and rulerships *)

ZODIAC_SIGNS ==
    <<"Aries", "Taurus", "Gemini", "Cancer", "Leo", "Virgo", "Libra", "Scorpio",
      "Sagittarius", "Capricorn", "Aquarius", "Pisces">>

\* ZODIAC_SIGNS[int(lon / 30)][0]
SignOf(lon) == ZODIAC_SIGNS[(lon \div (30 * Deg)) + 1]

\* get_planet_house(longitude, cusps)
get_planet_house(longitude, cusps) ==
    LET InHouse(i) ==
            LET cusp1 == cusps[i]
                cusp2 == cusps[(i % 12) + 1]
            IN  IF cusp2 < cusp1
                THEN longitude >= cusp1 \/ longitude < cusp2
                ELSE cusp1 <= longitude /\ longitude < cusp2
        found == {i \in 1..12 : InHouse(i)}
    IN  IF found = {} THEN 1 ELSE CHOOSE i \in found : \A j \in found : i <= j

\* SIGN_RULERS_RETRO.get(sign): "" when the sign has no retrograde co-ruler
SIGN_RULERS_RETRO(sign) ==
    CASE sign = "Aries" -> "Mars"
      [] sign = "Scorpio" -> "Pluto"
      [] sign = "Sagittarius" -> "Neptune"
      [] sign = "Capricorn" -> "Uranus"
      [] sign = "Aquarius" -> "Saturn"
      [] sign = "Pisces" -> "Jupiter"
      [] OTHER -> ""

\* PLANET_SIGNS.get(planet_name, [])
PLANET_SIGNS(planet_name) ==
    CASE planet_name = "Sun" -> {"Leo"}
      [] planet_name = "Moon" -> {"Cancer"}
      [] planet_name = "Mercury" -> {"Gemini", "Virgo"}
      [] planet_name = "Venus" -> {"Taurus", "Libra"}
      [] planet_name = "Mars" -> {"Scorpio"}
      [] planet_name = "Jupiter" -> {"Sagittarius"}
      [] planet_name = "Saturn" -> {"Capricorn"}
      [] planet_name = "Uranus" -> {"Aquarius"}
      [] planet_name = "Neptune" -> {"Pisces"}
      [] planet_name = "Pluto" -> {"Aries"}
      [] OTHER -> {}

\* PLANET_SIGNS_RETRO: the extra sign of a retrograde planet, {} when it has none
PLANET_SIGNS_RETRO(planet_name) ==
    CASE planet_name = "Mars" -> {"Aries"}
      [] planet_name = "Jupiter" -> {"Pisces"}
      [] planet_name = "Saturn" -> {"Aquarius"}
      [] planet_name = "Uranus" -> {"Capricorn"}
      [] planet_name = "Neptune" -> {"Sagittarius"}
      [] planet_name = "Pluto" -> {"Scorpio"}
      [] OTHER -> {}

\* a planet that rules its retrograde sign instead of its own signs
RuledSigns_replace(planet_name, is_retrograde) ==
    IF is_retrograde /\ PLANET_SIGNS_RETRO(planet_name) # {}
    THEN PLANET_SIGNS_RETRO(planet_name)
    ELSE PLANET_SIGNS(planet_name)

\* the signs of a planet as get_planet_ruled_houses collects them
RuledSigns(planet_name, is_retrograde) ==
    PLANET_SIGNS(planet_name)
        \cup (IF is_retrograde THEN PLANET_SIGNS_RETRO(planet_name) ELSE {})

\* a house size that forgets the house that wraps 0 degrees
house_size_no_wrap(cusp_start, cusp_end) == cusp_end - cusp_start

\* house_size of the house from cusp_start to cusp_end
house_size(cusp_start, cusp_end) ==
    IF cusp_end < cusp_start
    THEN (360 * Deg - cusp_start) + cusp_end
    ELSE cusp_end - cusp_start

\* rule 1 and the retrograde co-rule: the sign on the cusp is the planet's
CuspRules(planet_name, is_retrograde, cusp_start) ==
    \/ SignOf(cusp_start) \in RuledSigns(planet_name, is_retrograde)
    \/ (SIGN_RULERS_RETRO(SignOf(cusp_start)) = planet_name /\ is_retrograde)

\* a step that measures the distance to the end of the sign from the sign's
\* own end
deg_in_house_stuck(current_pos, remaining) ==
    Min2((30 * Deg - current_pos) % (30 * Deg), remaining)

\* deg_in_house = min(deg_to_end, remaining), current_pos already taken % 360
deg_in_house(current_pos, remaining) ==
    Min2(30 * Deg - (current_pos % (30 * Deg)), remaining)

\* a test that knows only the rule of half the house
SegmentQualifies_half(deg, size) == 2 * deg > size

\* is_included or is_over_50 or is_over_13_5
SegmentQualifies(deg, size) ==
    \/ 10 * deg >= 299 * Deg
    \/ 2 * deg > size
    \/ deg > 27 * HalfDeg

\* whether one iteration of the while loop adds the house
SegmentRules(planet_name, is_retrograde, size, current_pos, remaining) ==
    LET sign == SignOf(current_pos)
    IN  /\ SegmentQualifies(deg_in_house(current_pos, remaining), size)
        /\ \/ sign \in RuledSigns(planet_name, is_retrograde)
           \/ (SIGN_RULERS_RETRO(sign) = planet_name /\ is_retrograde)

RECURSIVE WalkSigns(_, _, _, _, _)
\* the while loop over the signs inside a house: TRUE when one of them adds
\* the house to the ruled set
WalkSigns(planet_name, is_retrograde, size, current_pos0, remaining) ==
    IF ~(10 * remaining > Deg) THEN FALSE
    ELSE LET current_pos == current_pos0 % (360 * Deg)
         IN  \/ SegmentRules(planet_name, is_retrograde, size, current_pos, remaining)
             \/ WalkSigns(planet_name, is_retrograde, size,
                          current_pos + deg_in_house(current_pos, remaining),
                          remaining - deg_in_house(current_pos, remaining))

\* whether get_planet_ruled_houses adds house_num for one of the ten planets
RulesHouse(planet_name, cusps, is_retrograde, house_num) ==
    LET cusp_start == cusps[house_num]
        cusp_end == cusps[(house_num % 12) + 1]
        size == house_size(cusp_start, cusp_end)
        deg_in_cusp_sign == 30 * Deg - (cusp_start % (30 * Deg))
    IN  \/ CuspRules(planet_name, is_retrograde, cusp_start)
        \/ WalkSigns(planet_name, is_retrograde, size,
                     cusp_start + deg_in_cusp_sign, size - deg_in_cusp_sign)

RECURSIVE SortedList(_)
\* sorted(a set of numbers)
SortedList(S) ==
    IF S = {} THEN <<>>
    ELSE LET m == CHOOSE x \in S : \A y \in S : x <= y
         IN  <<m>> \o SortedList(S \ {m})

\* get_planet_ruled_houses(planet_name, cusps, is_retrograde, retro_planets);
\* the body never reads retro_planets
get_planet_ruled_houses(planet_name, cusps, is_retrograde) ==
    IF planet_name = "Lilith" THEN <<8>>
    ELSE IF planet_name = "NorthNode" THEN <<>>
    ELSE SortedList({h \in 1..12 : RulesHouse(planet_name, cusps, is_retrograde, h)})

-----------------------------------------------------------------------------
(* Natal aspects and house connections *)

Range(seq) == {seq[i] : i \in 1..Len(seq)}

\* aspects.sort(key=lambda x: x['orb']): the sort is stable, so an aspect goes
\* after those of smaller orb and those of equal orb that were appended earlier
SortByOrb(s) ==
    LET Before(l, m, k) == l[m].orb < l[k].orb \/ (l[m].orb = l[k].orb /\ m < k)
        Pos(l, k) == Cardinality({m \in 1..Len(l) : Before(l, m, k)}) + 1
        Sorted(l) == [p \in 1..Len(l) |-> l[CHOOSE k \in 1..Len(l) : Pos(l, k) = p]]
    IN  CHOOSE r \in {Sorted(l) : l \in {s}} : TRUE

\* the dict appended for a pair of planets that are in aspect
PlanetAspect(p1, p2) ==
    LET aspect == find_aspect(p1.longitude, p2.longitude, p1.name, p2.name,
                              p1.speed, p2.speed)
    IN  [planet1 |-> p1.name, planet2 |-> p2.name,
         p1_house |-> p1.house, p2_house |-> p2.house,
         p1_rules |-> p1.rules, p2_rules |-> p2.rules,
         p1_retro |-> p1.retro, p2_retro |-> p2.retro,
         p1_malefic |-> MALEFIC_PLANETS(p1.name),
         p2_malefic |-> MALEFIC_PLANETS(p2.name),
         p1_speed |-> p1.speed, p2_speed |-> p2.speed,
         is_cusp_aspect |-> FALSE,
         angle |-> aspect.angle, name |-> aspect.name, orb |-> aspect.orb,
         nature |-> aspect.nature, max_orb |-> aspect.max_orb,
         applying |-> aspect.applying]

\* f'Cuspid {ROMAN_NUMERALS[house_num]}'
CuspNames ==
    <<"Cusp I", "Cusp II", "Cusp III", "Cusp IV", "Cusp V", "Cusp VI", "Cusp VII",
      "Cusp VIII", "Cusp IX", "Cusp X", "Cusp XI", "Cusp XII">>

\* the dict appended for a planet within CUSP_ORB of a house cusp
CuspAspect(p, house_num, diff) ==
    [planet1 |-> p.name, planet2 |-> CuspNames[house_num],
     p1_house |-> p.house, p2_house |-> house_num,
     p1_rules |-> p.rules, p2_rules |-> <<house_num>>,
     p1_retro |-> p.retro, p2_retro |-> FALSE,
     p1_malefic |-> MALEFIC_PLANETS(p.name), p2_malefic |-> FALSE,
     p1_speed |-> p.speed, p2_speed |-> 0,
     is_cusp_aspect |-> TRUE,
     angle |-> 0, name |-> "Conjunction", orb |-> diff,
     nature |-> "+-", max_orb |-> 1 * Deg,
     applying |-> "None"]

\* the inner loop for p1 = planet_names[i]: the aspects with the later planets
RowAspects(planets, i) ==
    LET InAspect(j) == find_aspect(planets[i].longitude, planets[j].longitude,
                                   planets[i].name, planets[j].name,
                                   planets[i].speed, planets[j].speed).found
        hits == SelectSeq([k \in 1..(Len(planets) - i) |-> i + k], InAspect)
    IN  [k \in 1..Len(hits) |-> PlanetAspect(planets[i], planets[hits[k]])]

RECURSIVE PairAspects(_, _)
\* the aspects of the pairs (i, j), j > i, in the order of the two loops
PairAspects(planets, i) ==
    IF i > Len(planets) THEN <<>>
    ELSE RowAspects(planets, i) \o PairAspects(planets, i + 1)

\* the inner loop over the cusps for one planet
RowCuspAspects(planets, cusps, i) ==
    LET Diff(house_num) == AngSep(planets[i].longitude, cusps[house_num])
        Near(house_num) == Diff(house_num) <= 1 * Deg
        hits == SelectSeq([k \in 1..12 |-> k], Near)
    IN  [k \in 1..Len(hits) |-> CuspAspect(planets[i], hits[k], Diff(hits[k]))]

RECURSIVE CuspAspects(_, _, _)
\* the conjunctions of planets with cusps, in the order of the two loops
CuspAspects(planets, cusps, i) ==
    IF i > Len(planets) THEN <<>>
    ELSE RowCuspAspects(planets, cusps, i) \o CuspAspects(planets, cusps, i + 1)

\* calculate_natal_aspects(planets_data, cusps); cusps is <<>> for None
calculate_natal_aspects(planets, cusps) ==
    SortByOrb(PairAspects(planets, 1)
              \o (IF cusps # <<>> THEN CuspAspects(planets, cusps, 1) ELSE <<>>))

\* the houses of one side of an aspect: its house and the houses it rules
SideHouses(house, rules) == {h \in {house} \cup Range(rules) : h > 0}

\* the unordered house pairs one aspect links
LinkedPairs(asp) ==
    {<<Min2(h1, h2), Min2(h1, h2) + Abs(h1 - h2)>> :
        <<h1, h2>> \in {q \in SideHouses(asp.p1_house, asp.p1_rules)
                                \X SideHouses(asp.p2_house, asp.p2_rules) : q[1] # q[2]}}

\* how often one aspect increments the pair key: once per ordered (h1, h2)
\* with h1 from the first side and h2 from the second that sorts to key
Increments(asp, key) ==
    Cardinality({q \in SideHouses(asp.p1_house, asp.p1_rules)
                        \X SideHouses(asp.p2_house, asp.p2_rules) :
                     q[1] # q[2] /\ {q[1], q[2]} = {key[1], key[2]}})

\* the counter of one nature for one pair after all aspects
CountLinks(aspects, key, nature) ==
    Cardinality({<<i, n>> \in (1..Len(aspects)) \X (1..4) :
                    aspects[i].nature = nature /\ n <= Increments(aspects[i], key)})

\* build_house_connections(aspects, planets_data): the counters by house pair
build_house_connections(aspects) ==
    LET keys == UNION {LinkedPairs(aspects[i]) : i \in 1..Len(aspects)}
    IN  [key \in keys |->
            [plus |-> CountLinks(aspects, key, "+"),
             minus |-> CountLinks(aspects, key, "-"),
             neutral |-> CountLinks(aspects, key, "+-")]]

-----------------------------------------------------------------------------
(* calculate_transits *)

TransitBodies == SubSeq(PLANETS_ALL, 1, NumTransiting)

transit_name == TransitBodies[ti]
natal_name == NatalNames[ni]
aspect_angle == ASPECTS[ai]
natal_lon == NatalLon(natal_name)

jd_start == datetime_to_julian(MidnightJd, timezone_hours)
jd_end == jd_start + days * DayJd

\* orb = min(abs(diff - aspect_angle), abs(360 - diff - aspect_angle))
OrbOf(lon, nlon, angle) ==
    LET diff == AngSep(lon, nlon)
    IN  Min2(Abs(diff - angle * Deg), Abs(360 * Deg - diff - angle * Deg))

\* the orb of the current triple at time t
OrbAt(t) == OrbOf(CalcUt(t, transit_name).lon, natal_lon, aspect_angle)

\* current_direction = orb < prev_orb
current_direction == IF OrbAt(jd) < prev_orb THEN "True" ELSE "False"

\* the test of line 1784
Crossing ==
    /\ prev_orb # None
    /\ prev_direction = "True"
    /\ current_direction = "False"
    /\ OrbAt(jd) < TRANSIT_ORBS(aspect_angle)

RECURSIVE InsertByJd(_, _)
\* e placed after every event whose exact_jd is not greater (the sort is stable)
InsertByJd(s, e) ==
    IF s = <<>> THEN <<e>>
    ELSE IF s[Len(s)].exact_jd <= e.exact_jd THEN Append(s, e)
    ELSE Append(InsertByJd(SubSeq(s, 1, Len(s) - 1), e), s[Len(s)])

RECURSIVE SortByJd(_)
\* transits.sort(key=lambda x: x['exact_jd'])
SortByJd(s) ==
    IF s = <<>> THEN <<>>
    ELSE InsertByJd(SortByJd(SubSeq(s, 1, Len(s) - 1)), s[Len(s)])

\* the except branch of the scan: the sample is skipped
ScanSkip ==
    /\ op = "calculate_transits" /\ pc = "scan"
    /\ jd < jd_end
    /\ CalcUtFails(jd, transit_name)
    /\ jd' = jd + step_jd(transit_name)
    /\ skipped' = skipped \cup {<<transit_name, jd>>}
    /\ UNCHANGED <<op, pc, eph, timezone_hours, days, ti, ni, ai, prev_orb,
                   prev_direction, jd_left, jd_right, iter, jd_exact, transits,
                   exc>>
    /\ UNCHANGED <<natalVars, callVars>>

\* one sample of the scan that detects no crossing
ScanSample ==
    /\ op = "calculate_transits" /\ pc = "scan"
    /\ jd < jd_end
    /\ ~CalcUtFails(jd, transit_name)
    /\ ~Crossing
    /\ prev_direction' = IF prev_orb # None THEN current_direction ELSE "None"
    /\ prev_orb' = OrbAt(jd)
    /\ jd' = jd + step_jd(transit_name)
    /\ UNCHANGED <<op, pc, eph, timezone_hours, days, ti, ni, ai, jd_left,
                   jd_right, iter, jd_exact, transits, exc, skipped>>
    /\ UNCHANGED <<natalVars, callVars>>

\* a sample at which the test of line 1784 holds: the refinement starts
Detect ==
    /\ op = "calculate_transits" /\ pc = "scan"
    /\ jd < jd_end
    /\ ~CalcUtFails(jd, transit_name)
    /\ Crossing
    /\ jd_left' = jd - step_jd(transit_name)
    /\ jd_right' = jd
    /\ iter' = 0
    /\ pc' = "refine"
    /\ UNCHANGED <<op, eph, timezone_hours, days, ti, ni, ai, jd, prev_orb,
                   prev_direction, jd_exact, transits, exc, skipped>>
    /\ UNCHANGED <<natalVars, callVars>>

\* the bracket after one iteration of the loop of lines 1790-1815
RefineBracket(l, r) ==
    LET jd_mid == (l + r) \div 2
    IN  IF OrbAt(l) < OrbAt(jd_mid) THEN <<l, jd_mid>> ELSE <<jd_mid, r>>

\* one iteration of the refinement loop; it ends the loop after 20 iterations
\* or when the bracket is narrower than a second
RefineStep ==
    /\ op = "calculate_transits" /\ pc = "refine"
    /\ LET jd_mid == (jd_left + jd_right) \div 2
           b == RefineBracket(jd_left, jd_right)
       IN  IF CalcUtFails(jd_mid, transit_name) \/ CalcUtFails(jd_left, transit_name)
           THEN /\ pc' = "raised"
                /\ exc' = "SwissEphError"
                /\ UNCHANGED <<jd_left, jd_right, iter, jd_exact>>
           ELSE /\ jd_left' = b[1]
                /\ jd_right' = b[2]
                /\ iter' = iter + 1
                /\ IF iter + 1 = 20 \/ Abs(b[2] - b[1]) < SecondJd
                   THEN /\ pc' = "exact"
                        /\ jd_exact' = (b[1] + b[2]) \div 2
                   ELSE /\ pc' = "refine"
                        /\ UNCHANGED jd_exact
                /\ UNCHANGED exc
    /\ UNCHANGED <<op, eph, timezone_hours, days, ti, ni, ai, jd, prev_orb,
                   prev_direction, transits, skipped>>
    /\ UNCHANGED <<natalVars, callVars>>

\* natal_data['cusps'] of the chart the request is made for
natal_cusps ==
    [i \in 1..12 |->
        <<15, 40, 70, 105, 140, 170, 195, 220, 250, 285, 320, 350>>[i] * Deg]

\* natal_data['planets']: the entries of the bodies of the chart, with the
\* house and the ruled houses the chart gives them
natal_planets ==
    [name \in {NatalNames[i] : i \in 1..Len(NatalNames)} |->
        [longitude |-> NatalLon(name),
         house |-> get_planet_house(NatalLon(name), natal_cusps),
         rules |-> get_planet_ruled_houses(name, natal_cusps, FALSE)]]

\* lines 1829-1843: the natal house and ruled houses of the natal body of the
\* same name, or the houses ruled by the natal cusps when the chart lacks it
transit_rules(name, is_retro) ==
    IF name \in DOMAIN natal_planets
    THEN SortedList({natal_planets[name].house}
                      \cup {natal_planets[name].rules[i] :
                               i \in 1..Len(natal_planets[name].rules)})
    ELSE get_planet_ruled_houses(name, natal_cusps, is_retro)

\* the dict appended at lines 1852-1869
TransitEvent(exact_dt) ==
    [transit_planet |-> transit_name,
     transit_house  |-> get_planet_house(CalcUt(jd_exact, transit_name).lon,
                                         natal_cusps),
     transit_rules  |-> transit_rules(transit_name,
                                      CalcUt(jd_exact, transit_name).speed < 0),
     natal_house    |-> natal_planets[natal_name].house,
     natal_rules    |-> natal_planets[natal_name].rules,
     natal_planet   |-> natal_name,
     aspect_angle   |-> aspect_angle,
     transit_retro  |-> CalcUt(jd_exact, transit_name).speed < 0,
     exact_datetime |-> exact_dt,
     exact_jd       |-> jd_exact,
     is_applying    |-> FALSE]

\* lines 1819-1877: the data at the exact time, the conversion of the time,
\* the append, and the end of the sample's iteration
RecordEvent ==
    /\ op = "calculate_transits" /\ pc = "exact"
    /\ LET dt == julian_to_datetime(<<jd_exact, timezone_hours>>)
       IN  IF CalcUtFails(jd_exact, transit_name)
           THEN /\ pc' = "raised"
                /\ exc' = "SwissEphError"
                /\ UNCHANGED <<transits, prev_direction, prev_orb, jd>>
           ELSE IF dt.raised # ""
           THEN /\ pc' = "raised"
                /\ exc' = dt.raised
                /\ UNCHANGED <<transits, prev_direction, prev_orb, jd>>
           ELSE /\ transits' = Append(transits, TransitEvent(dt.value))
                /\ prev_direction' = current_direction
                /\ prev_orb' = OrbAt(jd)
                /\ jd' = jd + step_jd(transit_name)
                /\ pc' = "scan"
                /\ UNCHANGED exc
    /\ UNCHANGED <<op, eph, timezone_hours, days, ti, ni, ai, jd_left,
                   jd_right, iter, jd_exact, skipped>>
    /\ UNCHANGED <<natalVars, callVars>>

LastTriple ==
    ti = Len(TransitBodies) /\ ni = Len(NatalNames) /\ ai = Len(ASPECTS)

\* the while loop of one triple ends: the next triple starts its scan
NextTriple ==
    /\ op = "calculate_transits" /\ pc = "scan"
    /\ jd >= jd_end
    /\ ~LastTriple
    /\ ai' = IF ai < Len(ASPECTS) THEN ai + 1 ELSE 1
    /\ ni' = IF ai < Len(ASPECTS) THEN ni
             ELSE IF ni < Len(NatalNames) THEN ni + 1 ELSE 1
    /\ ti' = IF ai = Len(ASPECTS) /\ ni = Len(NatalNames) THEN ti + 1 ELSE ti
    /\ jd' = jd_start
    /\ prev_orb' = None
    /\ prev_direction' = "None"
    /\ UNCHANGED <<op, pc, eph, timezone_hours, days, jd_left, jd_right, iter,
                   jd_exact, transits, exc, skipped>>
    /\ UNCHANGED <<natalVars, callVars>>

\* lines 1879-1882: the last triple is done, the list is sorted and returned
SortAndReturn ==
    /\ op = "calculate_transits" /\ pc = "scan"
    /\ jd >= jd_end
    /\ LastTriple
    /\ transits' = SortByJd(transits)
    /\ pc' = "returned"
    /\ UNCHANGED <<op, eph, timezone_hours, days, ti, ni, ai, jd, prev_orb,
                   prev_direction, jd_left, jd_right, iter, jd_exact, exc,
                   skipped>>
    /\ UNCHANGED <<natalVars, callVars>>

-----------------------------------------------------------------------------
(* The requests: inputs and oracles a request can run against *)

\* values of timezone_hours
TzValues == {-5, 0, 3}

\* times at which the Moon can pass the exact aspect: every quarter of a scan
\* step from one step before the window to one step after it
CrossingTimes(t0, d) ==
    LET q == step_jd("Moon") \div 4
        n == (d * DayJd) \div q
    IN  {t0 + k * q : k \in (-4)..(n + 4)}

\* sets of failing oracle calls: none, one Moon sample, one Sun sample
FailSets(t0) ==
    {{}, {<<"Moon", t0 + 2 * step_jd("Moon")>>}, {<<"Sun", t0 + step_jd("Sun")>>}}

IdleTransit ==
    /\ timezone_hours = 0 /\ days = 0
    /\ ti = 0 /\ ni = 0 /\ ai = 0
    /\ jd = 0 /\ prev_orb = None /\ prev_direction = "None"
    /\ jd_left = 0 /\ jd_right = 0 /\ iter = 0 /\ jd_exact = None
    /\ transits = <<>> /\ skipped = {}

\* no other function is running
IdleCalls == rh = <<>> /\ tc = <<>> /\ rp = <<>> /\ mp = <<>> /\ call = <<>>

IdleNatal ==
    /\ planets_data = <<>> /\ retro_planets = {} /\ warnings = <<>> /\ pi = 0
    /\ house_cusps = <<>> /\ chart = <<>>

InitTransits ==
    /\ op = "calculate_transits"
    /\ pc = "scan"
    /\ exc = ""
    /\ timezone_hours \in TzValues
    /\ days \in 1..MaxDays
    /\ \E nat \in {1, 2}, ang \in {0, 60, 90, 120, 180}, dr \in {1, -1} :
       \E tcross \in CrossingTimes(datetime_to_julian(MidnightJd, timezone_hours), days) :
       \E trn \in {NoTurn, tcross + 2 * step_jd("Moon")} :
       \E fl \in FailSets(datetime_to_julian(MidnightJd, timezone_hours)) :
          /\ (trn # NoTurn \/ fl # {}) => timezone_hours = 3
          /\ fl # {} => (trn = NoTurn /\ dr = 1)
          /\ eph = [t0 |-> datetime_to_julian(MidnightJd, timezone_hours),
                    natal |-> NatalNames[nat],
                    side |-> IF nat = 1 THEN 1 ELSE -1,
                    angle |-> ang, tc |-> tcross, dir |-> dr,
                    turn |-> trn, fail |-> fl]
    /\ ti = 1 /\ ni = 1 /\ ai = 1
    /\ jd = datetime_to_julian(MidnightJd, timezone_hours)
    /\ prev_orb = None /\ prev_direction = "None"
    /\ jd_left = 0 /\ jd_right = 0 /\ iter = 0 /\ jd_exact = None
    /\ transits = <<>> /\ skipped = {}
    /\ IdleNatal
    /\ fa = <<>>
    /\ IdleCalls

NextTransits ==
    \/ ScanSkip
    \/ ScanSample
    \/ Detect
    \/ RefineStep
    \/ RecordEvent
    \/ NextTriple
    \/ SortAndReturn

SpecTransits == InitTransits /\ [][NextTransits]_vars

-----------------------------------------------------------------------------
(* Properties of calculate_transits *)

\* the triple whose exact aspect the oracle places at eph.tc
FocusTriple ==
    transit_name = "Moon" /\ natal_name = eph.natal /\ aspect_angle = eph.angle

\* the times at which the Moon's separation from the natal point equals the
\* aspect angle: eph.tc, and its mirror image when the Moon turns round
CrossingSet ==
    {eph.tc} \cup (IF eph.turn = NoTurn THEN {} ELSE {2 * eph.turn - eph.tc})

InWindow(t) == jd_start <= t /\ t < jd_end

IsSortedByJd(s) ==
    \A i \in 1..(Len(s) - 1) : s[i].exact_jd <= s[i + 1].exact_jd

Finished == pc \in {"returned", "raised"}

\* C1: a detected crossing never ends the search with a TypeError, and every
\* recorded event shows exact_jd as civil time shifted by timezone_hours
C1_ExactDatetimeShifted ==
    /\ exc # "TypeError"
    /\ \A i \in 1..Len(transits) :
          transits[i].exact_datetime =
              julian_to_datetime_1885(transits[i].exact_jd, timezone_hours)

\* C2: when the search returns, every crossing of the window has an event of
\* its triple within one scan step of the crossing
C2_EveryCrossingReported ==
    pc = "returned" =>
        \A c \in CrossingSet :
            InWindow(c) =>
                \E i \in 1..Len(transits) :
                    /\ transits[i].transit_planet = "Moon"
                    /\ transits[i].natal_planet = eph.natal
                    /\ transits[i].aspect_angle = eph.angle
                    /\ Abs(transits[i].exact_jd - c) <= step_jd("Moon")

\* C3: the refinement bracket always contains a time of minimal orb, and the
\* time it settles on is within a second of it
C3_BracketKeepsMinimum ==
    /\ pc \in {"refine", "exact"} =>
          \E c \in CrossingSet : jd_left <= c /\ c <= jd_right
    /\ pc = "exact" => \E c \in CrossingSet : Abs(jd_exact - c) < SecondJd

\* C4: a search that detected a crossing and met no oracle failure ends by
\* returning a list that holds the event and is ordered by exact_jd
C4_ReturnedListSorted ==
    (Finished /\ jd_exact # None /\ exc # "SwissEphError") =>
        /\ pc = "returned"
        /\ transits # <<>>
        /\ IsSortedByJd(transits)

\* C21: a search that detected a crossing and met no oracle failure returns
\* events, and each event has as transit_house the house of the transiting
\* body's longitude at the exact time within the natal cusps and as
\* transit_rules the sorted union of the natal house and the natal ruled houses
\* of the natal body of the same name.
C21_TransitHouseAndRules ==
    (Finished /\ jd_exact # None /\ exc # "SwissEphError") =>
        /\ pc = "returned"
        /\ transits # <<>>
        /\ \A i \in 1..Len(transits) :
              LET e == transits[i]
              IN  /\ e.transit_house =
                        get_planet_house(CalcUt(e.exact_jd, e.transit_planet).lon,
                                         natal_cusps)
                  /\ e.transit_planet \in DOMAIN natal_planets =>
                        /\ \A h \in 1..12 :
                              (\E k \in 1..Len(e.transit_rules) : e.transit_rules[k] = h)
                                 <=> (h = natal_planets[e.transit_planet].house
                                       \/ \E k \in 1..Len(natal_planets[e.transit_planet].rules) :
                                             natal_planets[e.transit_planet].rules[k] = h)
                        /\ \A k \in 1..(Len(e.transit_rules) - 1) :
                              e.transit_rules[k] < e.transit_rules[k + 1]

\* C22: a search that detected a crossing of a triple and met no oracle
\* failure returns exactly one event for that crossing, and two events of the
\* same triple never come from the same or from adjacent scan steps.
C22_OneEventPerCrossing ==
    (Finished /\ jd_exact # None /\ exc # "SwissEphError") =>
        /\ pc = "returned"
        /\ \A c \in CrossingSet :
              (\E i \in 1..Len(transits) :
                    Abs(transits[i].exact_jd - c) <= step_jd("Moon"))
                 => Cardinality({i \in 1..Len(transits) :
                        /\ transits[i].transit_planet = "Moon"
                        /\ transits[i].natal_planet = eph.natal
                        /\ transits[i].aspect_angle = eph.angle
                        /\ Abs(transits[i].exact_jd - c) <= step_jd("Moon")}) = 1
        /\ \E i \in 1..Len(transits) : transits[i].transit_planet = "Moon"
        /\ \A i, j \in 1..Len(transits) :
              (/\ i # j
               /\ transits[i].transit_planet = transits[j].transit_planet
               /\ transits[i].natal_planet = transits[j].natal_planet
               /\ transits[i].aspect_angle = transits[j].aspect_angle)
                 => Abs(transits[i].exact_jd - transits[j].exact_jd)
                       > step_jd(transits[i].transit_planet)

\* applying status of the transiting body against the fixed natal point at time t
ApplyingAt(t) ==
    is_aspect_applying(CalcUt(t, transit_name).lon, natal_lon,
                       CalcUt(t, transit_name).speed, 0, aspect_angle)

\* C6: one second before the exact time found the aspect is applying, one
\* second after it the aspect is separating
C6_ApplyingFlipsAtExact ==
    pc = "exact" =>
        /\ ApplyingAt(jd_exact - SecondJd)
        /\ ~ApplyingAt(jd_exact + SecondJd)

\* detections happen on the focus triple only
DetectOnlyFocus == pc \in {"refine", "exact"} => FocusTriple

-----------------------------------------------------------------------------
(* The natal charts: calculate_natal_with_formulas and calculate_local_natal *)

\* largest number of bodies for which the oracle fails in one request
MaxFailures == 2

\* the functions that build a chart; calculate_full_natal_analysis begins
\* with a call of calculate_natal_with_formulas
NatalOps ==
    {"calculate_natal_with_formulas", "calculate_local_natal",
     "calculate_full_natal_analysis"}

\* the skies the oracle can show at the birth time: longitudes in half degrees
SkyLon ==
    <<<<200, 445, 206, 320, 400, 30, 408, 580, 660, 500, 100, 31>>,
      <<20, 380, 710, 80, 200, 260, 560, 620, 140, 440, 21, 320>>>>

\* and the daily motions (negative: retrograde)
SkySpeed ==
    <<<<1, 13, -1, 1, 1, 1, -1, 1, -1, 1, -1, 1>>,
      <<1, 12, 2, -1, 1, -1, 1, -1, 1, -1, -1, 1>>>>

\* swe.houses(jd, lat, lon, b'K'): the cusps in degrees at the two places
HousesAt(place) ==
    IF place = "birth"
    THEN <<15, 40, 70, 105, 140, 170, 195, 220, 250, 285, 320, 350>>
    ELSE <<352, 20, 50, 80, 118, 152, 172, 200, 230, 260, 298, 332>>

\* a body computed as seen from the place: the Moon is shifted at the residence
NatalCalcUt_from_place(i) ==
    [lon |-> (SkyLon[eph.sky][i] * HalfDeg
                + (IF eph.place # "birth" /\ i = 2 THEN HalfDeg ELSE 0)) % Circle,
     speed |-> SkySpeed[eph.sky][i]]

\* swe.calc_ut at the birth time for the body at position i of PLANETS_ALL
NatalCalcUt(i) ==
    [lon |-> SkyLon[eph.sky][i] * HalfDeg, speed |-> SkySpeed[eph.sky][i]]

\* swe.houses for the place the function asks about
SweHouses == [i \in 1..12 |-> HousesAt(eph.place)[i] * Deg]

\* the entry planets_data[name] written in the try block; calculate_local_natal
\* leaves the house for later (0 here)
PlanetEntry(i) ==
    LET r == NatalCalcUt(i)
    IN  [name      |-> PLANETS_ALL[i],
         longitude |-> r.lon,
         sign      |-> SignOf(r.lon),
         degree    |-> r.lon % (30 * Deg),
         house     |-> IF op # "calculate_local_natal"
                       THEN get_planet_house(r.lon, house_cusps) ELSE 0,
         retro     |-> r.speed < 0,
         speed     |-> r.speed,
         rules     |-> <<>>]

\* the position the function moves to when the loop over PLANETS_ALL ends
AfterPlanets ==
    IF op # "calculate_local_natal" THEN "finish" ELSE "houses"

\* swe.houses, outside any try: a failure ends the request
NatalHouses ==
    /\ op \in NatalOps
    /\ pc = "houses"
    /\ IF eph.houses_fail
       THEN /\ pc' = "raised"
            /\ exc' = "SwissEphError"
            /\ UNCHANGED house_cusps
       ELSE /\ house_cusps' = SweHouses
            /\ pc' = IF op # "calculate_local_natal" THEN "planets" ELSE "finish"
            /\ UNCHANGED exc
    /\ UNCHANGED <<op, eph, planets_data, retro_planets, warnings, pi, chart>>
    /\ UNCHANGED <<transitVars, callVars>>

\* one pass of the loop over PLANETS_ALL whose try block completes
NatalPlanet ==
    /\ op \in NatalOps
    /\ pc = "planets"
    /\ PLANETS_ALL[pi] \notin eph.fail
    /\ planets_data' = Append(planets_data, PlanetEntry(pi))
    /\ retro_planets' = IF NatalCalcUt(pi).speed < 0
                        THEN retro_planets \cup {PLANETS_ALL[pi]} ELSE retro_planets
    /\ IF pi < Len(PLANETS_ALL)
       THEN pi' = pi + 1 /\ pc' = "planets"
       ELSE pi' = pi /\ pc' = AfterPlanets
    /\ UNCHANGED <<op, eph, warnings, house_cusps, chart, exc>>
    /\ UNCHANGED <<transitVars, callVars>>

\* a pass whose swe.calc_ut raises and that lets the exception through
NatalPlanetFailsAborts ==
    /\ op \in NatalOps
    /\ pc = "planets"
    /\ PLANETS_ALL[pi] \in eph.fail
    /\ pc' = "raised"
    /\ exc' = "SwissEphError"
    /\ UNCHANGED <<op, eph, planets_data, retro_planets, warnings, pi,
                   house_cusps, chart>>
    /\ UNCHANGED <<transitVars, callVars>>

\* one pass whose swe.calc_ut raises: the except branch logs a warning
NatalPlanetFails ==
    /\ op \in NatalOps
    /\ pc = "planets"
    /\ PLANETS_ALL[pi] \in eph.fail
    /\ warnings' = Append(warnings, PLANETS_ALL[pi])
    /\ IF pi < Len(PLANETS_ALL)
       THEN pi' = pi + 1 /\ pc' = "planets"
       ELSE pi' = pi /\ pc' = AfterPlanets
    /\ UNCHANGED <<op, eph, planets_data, retro_planets, house_cusps, chart, exc>>
    /\ UNCHANGED <<transitVars, callVars>>

\* data['house'] (calculate_local_natal) and data['rules'] for every entry
WithHousesAndRules(planets) ==
    [i \in 1..Len(planets) |->
        [planets[i] EXCEPT
            !.house = IF op = "calculate_local_natal"
                      THEN get_planet_house(planets[i].longitude, house_cusps)
                      ELSE planets[i].house,
            !.rules = get_planet_ruled_houses(planets[i].name, house_cusps,
                                              planets[i].retro)]]

\* the rest of the function: houses and rules of the entries, and for the
\* relocated chart the aspects and the house connections; the chart is returned
NatalFinish ==
    /\ op \in NatalOps
    /\ pc = "finish"
    /\ planets_data' = WithHousesAndRules(planets_data)
    /\ IF op # "calculate_local_natal"
       THEN chart' = [planets |-> planets_data', cusps |-> house_cusps,
                      retro_planets |-> retro_planets]
       ELSE \E aspects \in {calculate_natal_aspects(planets_data', house_cusps)} :
               chart' = [planets |-> planets_data', cusps |-> house_cusps,
                         retro_planets |-> retro_planets,
                         aspects |-> aspects,
                         house_connections |-> build_house_connections(aspects),
                         is_relocated |-> eph.place # "birth"]
    /\ pc' = IF op = "calculate_full_natal_analysis" THEN "analysis" ELSE "returned"
    /\ UNCHANGED <<op, eph, retro_planets, warnings, pi, house_cusps, exc>>
    /\ UNCHANGED <<transitVars, callVars>>

InitNatal ==
    /\ op \in {"calculate_natal_with_formulas", "calculate_local_natal"}
    /\ pc = IF op = "calculate_natal_with_formulas" THEN "houses" ELSE "planets"
    /\ exc = ""
    /\ \E sk \in 1..Len(SkyLon), fl \in SUBSET Range(PLANETS_ALL),
          hf \in BOOLEAN, pl \in {"birth", "residence"} :
          /\ Cardinality(fl) <= MaxFailures
          /\ op = "calculate_natal_with_formulas" => pl = "birth"
          /\ eph = [sky |-> sk, fail |-> fl, houses_fail |-> hf, place |-> pl]
    /\ planets_data = <<>> /\ retro_planets = {} /\ warnings = <<>>
    /\ pi = 1 /\ house_cusps = <<>> /\ chart = <<>>
    /\ IdleTransit
    /\ fa = <<>>
    /\ IdleCalls

NextNatal == NatalHouses \/ NatalPlanet \/ NatalPlanetFails \/ NatalFinish

SpecNatal == InitNatal /\ [][NextNatal]_vars

-----------------------------------------------------------------------------
(* Calls of find_aspect *)

\* every longitude on the half-degree grid
GridLon == {k * HalfDeg : k \in 0..719}

\* the names of PLANETS_ALL, a name the orb matrix does not know, and no name
AspectNames == Range(PLANETS_ALL) \cup {"Chiron", ""}

\* the arguments of a call: every pair of names at longitude 0 against the
\* whole grid, and two bodies with speeds at 90 and 355.5 degrees
AspectInput(l1, l2, n1, n2, s1, s2) ==
    \/ l1 = 0 /\ s1 = NoSpeed /\ s2 = NoSpeed
    \/ /\ l1 # 0 /\ s1 # NoSpeed /\ s2 # NoSpeed
       /\ n1 \in {"Sun", "Pluto"} /\ n2 \in {"Sun", "Pluto"}

\* find_aspect(lon1, lon2, planet1_name, planet2_name, speed1, speed2)
CallFindAspect ==
    /\ op = "find_aspect" /\ pc = "call"
    /\ fa' = [fa EXCEPT !.result = find_aspect(fa.lon1, fa.lon2, fa.planet1_name,
                                               fa.planet2_name, fa.speed1, fa.speed2)]
    /\ pc' = "swap"
    /\ UNCHANGED <<op, eph, exc>>
    /\ UNCHANGED <<transitVars, natalVars, otherCalls>>

\* the same call with the two bodies exchanged
CallFindAspectSwapped ==
    /\ op = "find_aspect" /\ pc = "swap"
    /\ fa' = [fa EXCEPT !.swapped = find_aspect(fa.lon2, fa.lon1, fa.planet2_name,
                                                fa.planet1_name, fa.speed2, fa.speed1)]
    /\ pc' = "returned"
    /\ UNCHANGED <<op, eph, exc>>
    /\ UNCHANGED <<transitVars, natalVars, otherCalls>>

InitAspect ==
    /\ op = "find_aspect"
    /\ pc = "call"
    /\ exc = ""
    /\ eph = <<>>
    /\ \E l1 \in {0, 180 * HalfDeg, 711 * HalfDeg}, l2 \in GridLon,
          n1 \in AspectNames, n2 \in AspectNames,
          s1 \in {NoSpeed, 13, -1}, s2 \in {NoSpeed, 1} :
          /\ AspectInput(l1, l2, n1, n2, s1, s2)
          /\ fa = [lon1 |-> l1, lon2 |-> l2, planet1_name |-> n1,
                   planet2_name |-> n2, speed1 |-> s1, speed2 |-> s2,
                   result |-> NoAspect, swapped |-> NoAspect]
    /\ IdleTransit
    /\ IdleNatal
    /\ IdleCalls

NextAspect == CallFindAspect \/ CallFindAspectSwapped

SpecAspect == InitAspect /\ [][NextAspect]_vars

-----------------------------------------------------------------------------
(* All requests together *)

InitEngine == InitTransits \/ InitNatal

NextEngine == NextTransits \/ NextNatal

SpecEngine == InitEngine /\ [][NextEngine]_vars

-----------------------------------------------------------------------------
(* Properties of the failure handling *)

IsNatal == op \in {"calculate_natal_with_formulas", "calculate_local_natal"}

\* the names of the entries of a chart, in order
ChartNames(planets) == [i \in 1..Len(planets) |-> planets[i].name]

\* PLANETS_ALL without the bodies the oracle fails for
ComputedNames ==
    LET Ok(n) == n \notin eph.fail IN SelectSeq(PLANETS_ALL, Ok)

\* the bodies the oracle fails for, in the order of PLANETS_ALL
FailedNames ==
    LET Bad(n) == n \in eph.fail IN SelectSeq(PLANETS_ALL, Bad)

\* the failing oracle calls that are samples of the scan of some body
FailingSamples ==
    {f \in eph.fail : /\ f[1] \in Range(TransitBodies)
                      /\ jd_start <= f[2] /\ f[2] < jd_end
                      /\ (f[2] - jd_start) % step_jd(f[1]) = 0}

-----------------------------------------------------------------------------
(* Properties of find_aspect *)

\* the parts of a result the symmetry is about
AspectCore(r) == <<r.found, r.angle, r.orb, r.max_orb>>

\* C8: find_aspect(lon1, lon2, body1, body2) and find_aspect(lon2, lon1, body2,
\* body1) both return None or return the same angle, orb and max_orb, for names
\* known and unknown to the orb matrix, and get_orb_for_planets(a, b) equals
\* get_orb_for_planets(b, a).
C8_FindAspectSymmetric ==
    (op = "find_aspect" /\ pc = "returned") =>
        /\ AspectCore(fa.result) = AspectCore(fa.swapped)
        /\ get_orb_for_planets(fa.planet1_name, fa.planet2_name)
              = get_orb_for_planets(fa.planet2_name, fa.planet1_name)

\* both orders have found an aspect of two bodies from different rows of the
\* orb matrix
C8_SwappedPairFound ==
    /\ op = "find_aspect" /\ pc = "returned"
    /\ fa.planet1_name = "Sun" /\ fa.planet2_name = "Pluto"
    /\ fa.lon1 # fa.lon2
    /\ fa.result.found /\ fa.swapped.found
    /\ fa.result.max_orb = 13 * HalfDeg

\* the angles, by position in the order 0, 60, 90, 120, 180, whose orb is
\* within the tolerance tol at separation d
Qualifying(d, tol) == {k \in 1..Len(ASPECTS) : Abs(d - ASPECTS[k] * Deg) <= tol}

\* C9: with d = min(|lon1-lon2|, 360-|lon1-lon2|), find_aspect returns the
\* first angle in the order 0, 60, 90, 120, 180 whose orb |d - angle| is <= the
\* orb-matrix tolerance of the pair, returns None when no angle qualifies, and
\* longitudes 90 and 180 give the square with nature '-'.
C9_FirstQualifyingAngle ==
    (op = "find_aspect" /\ pc \in {"swap", "returned"}
        /\ fa.planet1_name # "" /\ fa.planet2_name # "") =>
        LET d == Min2(Abs(fa.lon1 - fa.lon2), 360 * Deg - Abs(fa.lon1 - fa.lon2))
            tol == get_orb_for_planets(fa.planet1_name, fa.planet2_name)
            q == Qualifying(d, tol)
        IN  /\ q = {} => ~fa.result.found
            /\ q # {} =>
                  /\ fa.result.found
                  /\ \E k \in q : /\ \A j \in q : k <= j
                                  /\ fa.result.angle = ASPECTS[k]
                                  /\ fa.result.orb = Abs(d - ASPECTS[k] * Deg)
            /\ (fa.lon1 = 90 * Deg /\ fa.lon2 = 180 * Deg) =>
                  /\ fa.result.found
                  /\ fa.result.angle = 90
                  /\ fa.result.nature = "-"

\* a trine whose orb is exactly the tolerance of the pair
C9_OrbOnTolerance ==
    /\ op = "find_aspect" /\ pc = "returned"
    /\ fa.planet1_name = "Saturn" /\ fa.planet2_name = "Moon"
    /\ fa.result.found
    /\ fa.result.angle = 120
    /\ fa.result.orb = 18 * HalfDeg
    /\ fa.result.max_orb = 18 * HalfDeg

-----------------------------------------------------------------------------
(* Properties of the nature of natal aspects *)

\* the aspects of two planets in the returned relocated chart
PlanetPairAspects ==
    IF op = "calculate_local_natal" /\ pc = "returned"
    THEN {a \in Range(chart.aspects) : ~a.is_cusp_aspect}
    ELSE {}

InvolvesMalefic(a) == a.p1_malefic \/ a.p2_malefic

\* C10 (as the code has it): the nature of a natal aspect is fixed by its type
\* for every type: '+' for sextile and trine, '-' for square and opposition,
\* and the neutral value for every conjunction, with or without a malefic
\* body; the MALEFIC_PLANETS table only fills the p1_malefic and p2_malefic
\* fields of the aspect.
C10_NatureFixedByType ==
    \A a \in PlanetPairAspects :
        /\ a.angle \in {60, 120} => a.nature = "+"
        /\ a.angle \in {90, 180} => a.nature = "-"
        /\ a.angle = 0 => a.nature = "+-"
        /\ a.p1_malefic = MALEFIC_PLANETS(a.planet1)
        /\ a.p2_malefic = MALEFIC_PLANETS(a.planet2)

\* a chart with a conjunction of two malefic bodies and a conjunction of two
\* bodies that are not malefic
C10_BothKindsOfConjunction ==
    /\ \E a \in PlanetPairAspects :
          a.angle = 0 /\ a.planet1 = "Mars" /\ a.planet2 = "Saturn"
    /\ \E b \in PlanetPairAspects :
          b.angle = 0 /\ b.planet1 = "Sun" /\ b.planet2 = "Mercury"

\* C10 (as stated): a conjunction involving a malefic body and a conjunction
\* of two non-malefic bodies do not get the same nature value.
C10_ConjunctionNatureByMalefic ==
    \A a \in PlanetPairAspects : \A b \in PlanetPairAspects :
        (a.angle = 0 /\ b.angle = 0 /\ InvolvesMalefic(a) /\ ~InvolvesMalefic(b))
            => a.nature # b.nature

-----------------------------------------------------------------------------
(* Calls of get_planet_ruled_houses, one loop iteration at a time *)

\* iterations of the while loop after which the model stops following it
MaxWalk == 14

\* house systems: the sizes of the twelve houses in half degrees
HousePatterns ==
    <<<<60, 60, 60, 60, 60, 60, 60, 60, 60, 60, 60, 60>>,
      <<50, 60, 70, 70, 60, 50, 50, 60, 70, 70, 60, 50>>,
      <<20, 40, 120, 120, 40, 20, 20, 40, 120, 120, 40, 20>>,
      <<150, 30, 30, 30, 30, 90, 150, 30, 30, 30, 30, 90>>,
      <<27, 55, 98, 83, 66, 31, 27, 55, 98, 83, 66, 31>>,
      <<500, 20, 20, 20, 20, 20, 20, 20, 20, 20, 20, 20>>>>

\* the longitudes of the first cusp: every third degree, and 260 degrees
CuspStarts == {k * 6 * HalfDeg : k \in 0..119} \cup {260 * Deg}

RECURSIVE CuspsFrom(_, _, _)
\* the cusps of a house system whose first cusp is at start
CuspsFrom(start, sizes, n) ==
    IF n = 0 THEN <<>>
    ELSE IF n = 1 THEN <<start>>
    ELSE LET c == CuspsFrom(start, sizes, n - 1)
         IN  Append(c, (c[n - 1] + sizes[n - 1] * HalfDeg) % (360 * Deg))

\* twelve longitudes that are not in cyclic order
LooseCusps ==
    {[i \in 1..12 |-> 100 * Deg],
     [i \in 1..12 |-> (360 - 30 * i) * Deg],
     [i \in 1..12 |-> IF i % 2 = 0 THEN 359 * Deg + HalfDeg ELSE 0]}

\* cusps in cyclic order with a first house of 0.15 degrees that ends 0.09
\* degrees behind the beginning of Taurus
TightCusps ==
    {[i \in 1..12 |-> IF i = 1 THEN 30 * Deg - (6 * Deg) \div 100
                      ELSE IF i = 2 THEN 30 * Deg + (9 * Deg) \div 100
                      ELSE ((30 * i) % 360) * Deg]}

\* the names the function is called with: the tracked bodies and a stranger
RuledNames == Range(PLANETS_ALL) \cup {"Chiron"}

\* lines 562-580: the special points return at once, the others start the loop
\* over the houses
RuledStart ==
    /\ op = "get_planet_ruled_houses" /\ pc = "start"
    /\ IF rh.planet_name = "Lilith"
       THEN rh' = [rh EXCEPT !.result = <<8>>] /\ pc' = "returned"
       ELSE IF rh.planet_name = "NorthNode"
       THEN rh' = [rh EXCEPT !.result = <<>>] /\ pc' = "returned"
       ELSE rh' = [rh EXCEPT !.house_num = 1] /\ pc' = "house"
    /\ UNCHANGED <<op, eph, exc, fa, tc, rp, mp, call>>
    /\ UNCHANGED <<transitVars, natalVars>>

\* lines 582-608 for a house whose cusp sign is the planet's: the house is
\* added and the loop continues with the next house
RuledCusp ==
    /\ op = "get_planet_ruled_houses" /\ pc = "house"
    /\ rh.house_num <= 12
    /\ LET cusp_start == rh.cusps[rh.house_num]
           cusp_end == rh.cusps[(rh.house_num % 12) + 1]
       IN  /\ CuspRules(rh.planet_name, rh.is_retrograde, cusp_start)
           /\ rh' = [rh EXCEPT !.house_size = house_size(cusp_start, cusp_end),
                               !.sizes = Append(@, house_size(cusp_start, cusp_end)),
                               !.ruled_houses = @ \cup {rh.house_num},
                               !.house_num = @ + 1]
    /\ UNCHANGED <<op, pc, eph, exc, fa, tc, rp, mp, call>>
    /\ UNCHANGED <<transitVars, natalVars>>

\* lines 582-612 for any other house: the walk over its signs starts behind
\* the sign of the cusp
RuledEnterWalk ==
    /\ op = "get_planet_ruled_houses" /\ pc = "house"
    /\ rh.house_num <= 12
    /\ LET cusp_start == rh.cusps[rh.house_num]
           cusp_end == rh.cusps[(rh.house_num % 12) + 1]
           size == house_size(cusp_start, cusp_end)
           deg_in_cusp_sign == 30 * Deg - (cusp_start % (30 * Deg))
       IN  /\ ~CuspRules(rh.planet_name, rh.is_retrograde, cusp_start)
           /\ rh' = [rh EXCEPT !.house_size = size,
                               !.sizes = Append(@, size),
                               !.current_pos = cusp_start + deg_in_cusp_sign,
                               !.remaining = size - deg_in_cusp_sign,
                               !.steps = 0]
    /\ pc' = "walk"
    /\ UNCHANGED <<op, eph, exc, fa, tc, rp, mp, call>>
    /\ UNCHANGED <<transitVars, natalVars>>

\* lines 614-637: one iteration of the while loop
RuledWalkStep ==
    /\ op = "get_planet_ruled_houses" /\ pc = "walk"
    /\ 10 * rh.remaining > Deg
    /\ rh.steps < MaxWalk
    /\ LET current_pos == rh.current_pos % (360 * Deg)
           deg == deg_in_house(current_pos, rh.remaining)
       IN  rh' = [rh EXCEPT
                    !.ruled_houses =
                        IF SegmentRules(rh.planet_name, rh.is_retrograde,
                                        rh.house_size, current_pos, rh.remaining)
                        THEN @ \cup {rh.house_num} ELSE @,
                    !.current_pos = current_pos + deg,
                    !.remaining = @ - deg,
                    !.steps = @ + 1]
    /\ UNCHANGED <<op, pc, eph, exc, fa, tc, rp, mp, call>>
    /\ UNCHANGED <<transitVars, natalVars>>

\* the while loop ends: the next house
RuledWalkEnd ==
    /\ op = "get_planet_ruled_houses" /\ pc = "walk"
    /\ ~(10 * rh.remaining > Deg)
    /\ rh' = [rh EXCEPT !.house_num = @ + 1]
    /\ pc' = "house"
    /\ UNCHANGED <<op, eph, exc, fa, tc, rp, mp, call>>
    /\ UNCHANGED <<transitVars, natalVars>>

\* line 639: return sorted(ruled_houses)
RuledReturn ==
    /\ op = "get_planet_ruled_houses" /\ pc = "house"
    /\ rh.house_num > 12
    /\ rh' = [rh EXCEPT !.result = SortedList(rh.ruled_houses)]
    /\ pc' = "returned"
    /\ UNCHANGED <<op, eph, exc, fa, tc, rp, mp, call>>
    /\ UNCHANGED <<transitVars, natalVars>>

InitRuled ==
    /\ op = "get_planet_ruled_houses"
    /\ pc = "start"
    /\ exc = ""
    /\ eph = <<>>
    /\ \E name \in RuledNames, retro \in BOOLEAN, k \in 0..Len(HousePatterns),
          start \in CuspStarts :
       \E c \in IF k = 0 THEN LooseCusps \cup TightCusps
                ELSE {CuspsFrom(start, HousePatterns[k], 12)} :
          /\ k = 0 => start = 0
          /\ rh = [planet_name |-> name, cusps |-> c, is_retrograde |-> retro,
                   house_num |-> 0, house_size |-> 0, sizes |-> <<>>,
                   current_pos |-> 0, remaining |-> 0, steps |-> 0,
                   ruled_houses |-> {}, result |-> <<>>]
    /\ IdleTransit
    /\ IdleNatal
    /\ fa = <<>> /\ tc = <<>> /\ rp = <<>> /\ mp = <<>> /\ call = <<>>

NextRuled ==
    \/ RuledStart
    \/ RuledCusp
    \/ RuledEnterWalk
    \/ RuledWalkStep
    \/ RuledWalkEnd
    \/ RuledReturn

SpecRuled == InitRuled /\ [][NextRuled]_vars

\* the step-by-step call and the operator agree on the result
RuledAgrees ==
    (op = "get_planet_ruled_houses" /\ pc = "returned") =>
        rh.result = get_planet_ruled_houses(rh.planet_name, rh.cusps, rh.is_retrograde)

-----------------------------------------------------------------------------
(* Properties of get_planet_ruled_houses *)

RuledReturned == op = "get_planet_ruled_houses" /\ pc = "returned"

\* the HouseCusps invariant: twelve cusps in cyclic order, so that exactly one
\* house wraps 0 degrees and no two neighbours coincide
HouseCuspsInvariant(c) ==
    /\ Len(c) = 12
    /\ \A i \in 1..12 : c[i] >= 0 /\ c[i] < 360 * Deg /\ c[i] # c[(i % 12) + 1]
    /\ Cardinality({i \in 1..12 : c[(i % 12) + 1] < c[i]}) = 1

TenPlanets == {PLANETS_ALL[i] : i \in 1..10}

RECURSIVE SeqSum(_)
SeqSum(q) == IF q = <<>> THEN 0 ELSE q[1] + SeqSum(Tail(q))

\* the signs the arc of the given size that starts at start has a part of
TouchedSigns(start, size) ==
    {SignOf(start)} \cup
    {SignOf((start + 30 * Deg - (start % (30 * Deg)) + k * 30 * Deg) % (360 * Deg)) :
        k \in {j \in 0..11 : 30 * Deg - (start % (30 * Deg)) + j * 30 * Deg < size}}

\* C11: get_planet_ruled_houses is total: for every body name, either
\* retrograde flag and any twelve cusp longitudes in [0,360) the walk over the
\* signs inside a house ends (after at most twelve iterations), nothing is
\* raised, and the result is a strictly ascending list of houses within 1..12.
C11_RuledHousesTotal ==
    op = "get_planet_ruled_houses" =>
        /\ pc # "raised" /\ exc = ""
        /\ rh.steps <= 12
        /\ pc = "returned" =>
              /\ \A i \in 1..Len(rh.result) : rh.result[i] \in 1..12
              /\ \A i \in 1..(Len(rh.result) - 1) : rh.result[i] < rh.result[i + 1]

\* a call with cusps that are in no cyclic order has returned two houses or more
C11_LooseCuspsReturned ==
    /\ RuledReturned
    /\ ~HouseCuspsInvariant(rh.cusps)
    /\ Len(rh.result) >= 2

\* C12: for cusps that satisfy the HouseCusps invariant and either retrograde
\* flag, the result is non-empty for each of the ten planets and for Lilith and
\* empty for the lunar node.
C12_EveryPlanetRules ==
    (RuledReturned /\ HouseCuspsInvariant(rh.cusps)) =>
        /\ rh.planet_name \in TenPlanets \cup {"Lilith"} => rh.result # <<>>
        /\ rh.planet_name = "NorthNode" => rh.result = <<>>

\* the Sun rules a house although Leo is on no cusp
C12_InterceptedLeo ==
    /\ RuledReturned /\ HouseCuspsInvariant(rh.cusps)
    /\ rh.planet_name = "Sun"
    /\ \A i \in 1..12 : SignOf(rh.cusps[i]) # "Leo"
    /\ rh.result # <<>>

C14_HouseSizes ==
    (RuledReturned /\ HouseCuspsInvariant(rh.cusps) /\ Len(rh.sizes) = 12) =>
        /\ \A h \in 1..12 : rh.sizes[h] > 0
        /\ \A h \in 1..12 :
              rh.sizes[h] = (rh.cusps[(h % 12) + 1] - rh.cusps[h]) % (360 * Deg)
        /\ SeqSum(rh.sizes) = 360 * Deg
        /\ (rh.cusps[4] = 350 * Deg /\ rh.cusps[5] = 20 * Deg)
              => rh.sizes[4] = 30 * Deg

\* the sizes of a house system whose fourth house spans 350 to 20 degrees
C14_FourthHouseWraps ==
    /\ RuledReturned /\ HouseCuspsInvariant(rh.cusps)
    /\ Len(rh.sizes) = 12
    /\ rh.cusps[4] = 350 * Deg /\ rh.cusps[5] = 20 * Deg

-----------------------------------------------------------------------------
(* datetime_to_julian and julian_to_datetime on calendar dates *)

SecsPerDay == 24 * 3600

\* every year divisible by four is a leap year
is_leap_every_fourth(year) == year % 4 = 0

\* lines 127 and 141: the leap year rule
is_leap(year) == (year % 4 = 0 /\ year % 100 # 0) \/ (year % 400 = 0)

\* lines 122-130 and 136-144: the length of a month
days_in_month(year, month) ==
    IF month \in {1, 3, 5, 7, 8, 10, 12} THEN 31
    ELSE IF month \in {4, 6, 9, 11} THEN 30
    ELSE IF is_leap(year) THEN 29 ELSE 28

\* swe.julday(year, month, day, 0, GREG_CAL) + 0.5: the day number of a
\* Gregorian date
DayNumber(year, month, day) ==
    LET a == (14 - month) \div 12
        y == year + 4800 - a
        m == month + 12 * a - 3
    IN  day + ((153 * m + 2) \div 5) + 365 * y + (y \div 4) - (y \div 100)
            + (y \div 400) - 32045

\* swe.revjul: the Gregorian date <<year, month, day>> of a day number
revjul(j) ==
    LET f == j + 1401 + ((((4 * j + 274277) \div 146097) * 3) \div 4) - 38
        e == 4 * f + 3
        g == (e % 1461) \div 4
        h == 5 * g + 2
        d == ((h % 153) \div 5) + 1
        m == (((h \div 153) + 2) % 12) + 1
        y == (e \div 1461) - 4716 + ((14 - m) \div 12)
    IN  <<y, m, d>>

\* swe.julday(year, month, day, hour, GREG_CAL): the instant as a day number
\* and the seconds since 0h UT of that day
julday(year, month, day, hour_decimal) ==
    [day |-> DayNumber(year, month, day) + (hour_decimal \div SecsPerDay),
     sec |-> hour_decimal % SecsPerDay]

\* datetime(year, month, day, hour, minute, second) accepts valid dates only
ValidDate(year, month, day) ==
    /\ month \in 1..12 /\ day \in 1..31
    /\ revjul(DayNumber(year, month, day)) = <<year, month, day>>

\* the datetime at a day number and seconds since 0h
DatetimeAt(day, sec) ==
    LET ymd == revjul(day + (sec \div SecsPerDay))
        s == sec % SecsPerDay
    IN  [year |-> ymd[1], month |-> ymd[2], day |-> ymd[3],
         hour |-> s \div 3600, minute |-> (s % 3600) \div 60, second |-> s % 60]

\* int() of the hours, minutes and seconds of swe.revjul(jd): the double that
\* holds jd is exact or lies just below the instant (below), and int()
\* truncates, so the last unit kept is the one the double lies in
Truncated(j, unit, below) ==
    LET s == IF below THEN j.sec - 1 ELSE j.sec
    IN  (s \div unit) * unit

\* body of the definition at line 1885 on calendar dates: UTC truncated to
\* the second, plus timedelta(hours=timezone_hours)
julian_to_datetime_1885_dt(j, below, offset) ==
    DatetimeAt(j.day, Truncated(j, 1, below) + offset * 60)

\* body of the definition at line 2192 on calendar dates: truncated to the
\* minute, no offset
julian_to_datetime_2192_dt(j, below) ==
    DatetimeAt(j.day, Truncated(j, 60, below))

\* julian_to_datetime(*args) as Python evaluates the call, on calendar dates;
\* args is <<jd>> or <<jd, timezone_hours>>
julian_to_datetime_dt(args, below) ==
    LET d == Resolve("julian_to_datetime")
    IN  IF Len(args) > d.params \/ Len(args) < d.required THEN TypeError
        ELSE IF d.line = 1885
             THEN [raised |-> "", value |->
                     julian_to_datetime_1885_dt(args[1], below,
                                                IF Len(args) > 1 THEN args[2] ELSE 0)]
             ELSE [raised |-> "", value |-> julian_to_datetime_2192_dt(args[1], below)]

\* the years, the days of the year and the times of day of the calls
JulianYears == {1999, 2000, 2023, 2024, 2100}

JulianDays ==
    {<<1, 1>>, <<2, 28>>, <<2, 29>>, <<3, 1>>, <<4, 30>>, <<5, 1>>,
     <<7, 15>>, <<7, 31>>, <<8, 1>>, <<12, 31>>}

JulianTimes ==
    {<<0, 0, 0>>, <<0, 30, 0>>, <<12, 30, 30>>, <<23, 30, 0>>, <<23, 59, 59>>}

\* timezone_hours in minutes: whole, half and quarter hours, and offsets of
\* more than one and more than two days
JulianOffsets ==
    {-2940, -1500, -840, -330, -60, 0, 60, 180, 345, 840, 1500, 2940}

\* line 106-110
JulianStart ==
    /\ op = "datetime_to_julian" /\ pc = "start"
    /\ tc' = [tc EXCEPT
                !.hour_decimal = tc.dt.hour * 3600 + tc.dt.minute * 60
                                   + tc.dt.second - tc.timezone_hours * 60,
                !.year = tc.dt.year, !.month = tc.dt.month, !.day = tc.dt.day]
    /\ pc' = "borrow"
    /\ UNCHANGED <<op, eph, exc, fa, rh, rp, mp, call>>
    /\ UNCHANGED <<transitVars, natalVars>>

\* lines 113-130: one iteration of the first while loop
JulianBorrow ==
    /\ op = "datetime_to_julian" /\ pc = "borrow"
    /\ tc.hour_decimal < 0
    /\ LET day == tc.day - 1
           month == IF day >= 1 THEN tc.month
                    ELSE IF tc.month - 1 < 1 THEN 12 ELSE tc.month - 1
           year == IF day < 1 /\ tc.month - 1 < 1 THEN tc.year - 1 ELSE tc.year
       IN  tc' = [tc EXCEPT
                    !.hour_decimal = tc.hour_decimal + SecsPerDay,
                    !.day = IF day < 1 THEN days_in_month(year, month) ELSE day,
                    !.month = month,
                    !.year = year,
                    !.borrowed = tc.borrowed + 1]
    /\ UNCHANGED <<op, pc, eph, exc, fa, rh, rp, mp, call>>
    /\ UNCHANGED <<transitVars, natalVars>>

\* line 113: the first loop ends
JulianBorrowEnd ==
    /\ op = "datetime_to_julian" /\ pc = "borrow"
    /\ ~(tc.hour_decimal < 0)
    /\ pc' = "carry"
    /\ UNCHANGED <<op, eph, exc, fa, rh, tc, rp, mp, call>>
    /\ UNCHANGED <<transitVars, natalVars>>

\* lines 132-150: one iteration of the second while loop
JulianCarry ==
    /\ op = "datetime_to_julian" /\ pc = "carry"
    /\ tc.hour_decimal >= SecsPerDay
    /\ LET day == tc.day + 1
           over == day > days_in_month(tc.year, tc.month)
           month == IF over THEN tc.month + 1 ELSE tc.month
       IN  tc' = [tc EXCEPT
                    !.hour_decimal = tc.hour_decimal - SecsPerDay,
                    !.day = IF over THEN 1 ELSE day,
                    !.month = IF month > 12 THEN 1 ELSE month,
                    !.year = IF month > 12 THEN tc.year + 1 ELSE tc.year,
                    !.carried = tc.carried + 1]
    /\ UNCHANGED <<op, pc, eph, exc, fa, rh, rp, mp, call>>
    /\ UNCHANGED <<transitVars, natalVars>>

\* lines 152-159: swe.julday and return; the double returned is exact or lies
\* just below the instant
JulianReturn ==
    /\ op = "datetime_to_julian" /\ pc = "carry"
    /\ ~(tc.hour_decimal >= SecsPerDay)
    /\ \E below \in BOOLEAN :
          tc' = [tc EXCEPT
                   !.jd = julday(tc.year, tc.month, tc.day, tc.hour_decimal),
                   !.below = below]
    /\ pc' = "julday"
    /\ UNCHANGED <<op, eph, exc, fa, rh, rp, mp, call>>
    /\ UNCHANGED <<transitVars, natalVars>>

\* the Julian day is converted back with julian_to_datetime at the same
\* offset: the offset is passed, or left to its default when it is zero
JulianBack ==
    /\ op = "datetime_to_julian" /\ pc = "julday"
    /\ \E args \in {<<tc.jd, tc.timezone_hours>>} \cup
                   (IF tc.timezone_hours = 0 THEN {<<tc.jd>>} ELSE {}) :
          LET r == julian_to_datetime_dt(args, tc.below)
          IN  IF r.raised # ""
              THEN /\ exc' = r.raised
                   /\ pc' = "raised"
                   /\ tc' = [tc EXCEPT !.args = Len(args)]
              ELSE /\ exc' = exc
                   /\ pc' = "returned"
                   /\ tc' = [tc EXCEPT !.args = Len(args), !.back = r.value]
    /\ UNCHANGED <<op, eph, fa, rh, rp, mp, call>>
    /\ UNCHANGED <<transitVars, natalVars>>

InitJulian ==
    /\ op = "datetime_to_julian" /\ pc = "start" /\ exc = ""
    /\ eph = <<>>
    /\ IdleTransit /\ IdleNatal
    /\ fa = <<>> /\ rh = <<>> /\ rp = <<>> /\ mp = <<>> /\ call = <<>>
    /\ \E y \in JulianYears, md \in JulianDays, t \in JulianTimes,
          off \in JulianOffsets :
          /\ ValidDate(y, md[1], md[2])
          /\ tc = [dt |-> [year |-> y, month |-> md[1], day |-> md[2],
                           hour |-> t[1], minute |-> t[2], second |-> t[3]],
                   timezone_hours |-> off,
                   hour_decimal |-> 0, year |-> 0, month |-> 0, day |-> 0,
                   borrowed |-> 0, carried |-> 0,
                   jd |-> <<>>, below |-> FALSE, args |-> 0, back |-> <<>>]

NextJulian ==
    \/ JulianStart
    \/ JulianBorrow
    \/ JulianBorrowEnd
    \/ JulianCarry
    \/ JulianReturn
    \/ JulianBack

SpecJulian == InitJulian /\ [][NextJulian]_vars

-----------------------------------------------------------------------------
(* Properties of the time conversion *)

\* the civil time of the call minus the offset, in seconds since 0h of the
\* civil date
UtSeconds ==
    tc.dt.hour * 3600 + tc.dt.minute * 60 + tc.dt.second - tc.timezone_hours * 60

JulianNormalised == op = "datetime_to_julian" /\ pc \in {"julday", "returned", "raised"}

\* C15: datetime_to_julian normalises (year, month, day, hour minus offset) to
\* a valid Gregorian date with 0 <= hour < 24 that denotes the instant of the
\* civil time minus the offset, whatever the offset and the date, also when
\* the day rolls back or forward over the end of a month, of February or of
\* the year.
C15_NormalisedSameInstant ==
    JulianNormalised =>
        /\ ValidDate(tc.year, tc.month, tc.day)
        /\ tc.hour_decimal >= 0 /\ tc.hour_decimal < SecsPerDay
        /\ <<tc.year, tc.month, tc.day>> =
              revjul(DayNumber(tc.dt.year, tc.dt.month, tc.dt.day)
                       + (UtSeconds \div SecsPerDay))
        /\ tc.hour_decimal = UtSeconds % SecsPerDay

\* 1 March of a leap year rolled back by one day to 29 February
C15_RolledOverFebruary ==
    /\ JulianNormalised
    /\ tc.dt.month = 3 /\ tc.dt.day = 1 /\ tc.month = 2 /\ tc.day = 29
    /\ tc.borrowed = 1

\* C16: a civil time converted with datetime_to_julian and converted back with
\* the module's julian_to_datetime at the same offset is the original civil
\* date and time to the minute, for every offset.
C16_RoundTripToMinute ==
    (op = "datetime_to_julian" /\ pc \in {"returned", "raised"}) =>
        /\ pc = "returned" /\ exc = ""
        /\ tc.back = [tc.dt EXCEPT !.second = tc.back.second]

-----------------------------------------------------------------------------
(* calculate_full_natal_analysis *)

\* list(set(h for h in houses if h > 0)): the order in which a set hands out
\* its integers is not defined by the language; ascending, descending, and by
\* slot in a hash table of eight entries
SetOrders == {"ascending", "descending", "slots"}

SetRank(order, h) ==
    IF order = "ascending" THEN h
    ELSE IF order = "descending" THEN 13 - h
    ELSE (h % 8) * 16 + h

SetAsList(S, order) ==
    [p \in 1..Cardinality(S) |->
        CHOOSE h \in S :
            Cardinality({g \in S : SetRank(order, g) < SetRank(order, h)}) = p - 1]

\* the keys one aspect reaches, in the order of the loops over h1 and h2
AspectKeys(asp, order) ==
    LET l1 == SetAsList(SideHouses(asp.p1_house, asp.p1_rules), order)
        l2 == SetAsList(SideHouses(asp.p2_house, asp.p2_rules), order)
        all == [k \in 1..(Len(l1) * Len(l2)) |->
                   <<l1[((k - 1) \div Len(l2)) + 1], l2[((k - 1) % Len(l2)) + 1]>>]
        Differ(q) == q[1] # q[2]
        kept == SelectSeq(all, Differ)
    IN  [k \in 1..Len(kept) |->
            <<Min2(kept[k][1], kept[k][2]),
              Min2(kept[k][1], kept[k][2]) + Abs(kept[k][1] - kept[k][2])>>]

FirstIndex(seq, x) ==
    CHOOSE k \in 1..Len(seq) : seq[k] = x /\ \A m \in 1..(k - 1) : seq[m] # x

\* the keys of the dict build_house_connections returns, in the order in which
\* `connections[key] = {...}` inserted them: by the first aspect that reaches
\* the key, then by the position of the key in the loops of that aspect
connection_keys(aspects, order) ==
    LET keys == UNION {LinkedPairs(aspects[i]) : i \in 1..Len(aspects)}
        First(key) ==
            CHOOSE i \in 1..Len(aspects) :
                /\ key \in LinkedPairs(aspects[i])
                /\ \A j \in 1..(i - 1) : key \notin LinkedPairs(aspects[j])
        Rank(key) ==
            First(key) * 1000 + FirstIndex(AspectKeys(aspects[First(key)], order), key)
        ByRank(rk) ==
            [p \in 1..Cardinality(DOMAIN rk) |->
                CHOOSE key \in DOMAIN rk :
                    Cardinality({k2 \in DOMAIN rk : rk[k2] < rk[key]}) = p - 1]
    IN  CHOOSE r \in {ByRank(rk) : rk \in {[key \in keys |-> Rank(key)]}} : TRUE

PairBefore(a, b) == a[1] < b[1] \/ (a[1] = b[1] /\ a[2] < b[2])

\* a sort by total descending that lists equal totals by ascending pair
SortByTotal_then_pair(s) ==
    LET Before(l, m, k) ==
            \/ l[m].total > l[k].total
            \/ (l[m].total = l[k].total /\ PairBefore(l[m].houses, l[k].houses))
        Pos(l, k) == Cardinality({m \in 1..Len(l) : Before(l, m, k)}) + 1
        Sorted(l) == [p \in 1..Len(l) |-> l[CHOOSE k \in 1..Len(l) : Pos(l, k) = p]]
    IN  CHOOSE r \in {Sorted(l) : l \in {s}} : TRUE

\* line 1133, strong_formulas.sort(key=lambda x: -x['total']): the sort is
\* stable, so equal totals stay in the order in which they were appended
SortByTotal(s) ==
    LET Before(l, m, k) ==
            l[m].total > l[k].total \/ (l[m].total = l[k].total /\ m < k)
        Pos(l, k) == Cardinality({m \in 1..Len(l) : Before(l, m, k)}) + 1
        Sorted(l) == [p \in 1..Len(l) |-> l[CHOOSE k \in 1..Len(l) : Pos(l, k) = p]]
    IN  CHOOSE r \in {Sorted(l) : l \in {s}} : TRUE

\* lines 1119-1134: the loop over connections.items() and the sort
strong_formulas(connections, keys) ==
    LET Entry(key) ==
            [houses |-> key,
             positive |-> connections[key].plus,
             negative |-> connections[key].minus,
             neutral |-> connections[key].neutral,
             total |-> connections[key].plus + connections[key].minus
                         + connections[key].neutral]
        Strong(e) == e.total >= 3
    IN  SortByTotal(SelectSeq([k \in 1..Len(keys) |-> Entry(keys[k])], Strong))

\* lines 1105-1136: the aspects, the connections and the strong formulas of the
\* chart calculate_natal_with_formulas returned
AnalysisFinish ==
    /\ op = "calculate_full_natal_analysis"
    /\ pc = "analysis"
    /\ \E order \in SetOrders :
       \E aspects \in {calculate_natal_aspects(chart.planets, chart.cusps)} :
       \E connections \in {build_house_connections(aspects)} :
       \E keys \in {connection_keys(aspects, order)} :
          chart' = [planets |-> chart.planets, cusps |-> chart.cusps,
                    retro_planets |-> chart.retro_planets,
                    aspects |-> aspects,
                    house_connections |-> connections,
                    connection_order |-> keys,
                    strong_formulas |-> strong_formulas(connections, keys)]
    /\ pc' = "returned"
    /\ UNCHANGED <<op, eph, exc, planets_data, retro_planets, warnings, pi,
                   house_cusps>>
    /\ UNCHANGED <<transitVars, callVars>>

InitAnalysis ==
    /\ op = "calculate_full_natal_analysis"
    /\ pc = "houses"
    /\ exc = ""
    /\ \E sk \in 1..Len(SkyLon), fl \in SUBSET Range(PLANETS_ALL), hf \in BOOLEAN :
          /\ Cardinality(fl) <= 1
          /\ eph = [sky |-> sk, fail |-> fl, houses_fail |-> hf, place |-> "birth"]
    /\ planets_data = <<>> /\ retro_planets = {} /\ warnings = <<>>
    /\ pi = 1 /\ house_cusps = <<>> /\ chart = <<>>
    /\ IdleTransit
    /\ fa = <<>>
    /\ IdleCalls

NextAnalysis ==
    \/ NatalHouses
    \/ NatalPlanet
    \/ NatalPlanetFails
    \/ NatalFinish
    \/ AnalysisFinish

SpecAnalysis == InitAnalysis /\ [][NextAnalysis]_vars

-----------------------------------------------------------------------------
(* Properties of calculate_full_natal_analysis *)

AnalysisReturned == op = "calculate_full_natal_analysis" /\ pc = "returned"

ConnectionTotal(key) ==
    chart.house_connections[key].plus + chart.house_connections[key].minus
        + chart.house_connections[key].neutral

\* the strong formulas are the pairs of total 3 or more, once each, with the
\* counters of the pair, by total descending
StrongAreTheTotalsFromThree ==
    LET sf == chart.strong_formulas
    IN  /\ {sf[i].houses : i \in 1..Len(sf)} =
              {key \in DOMAIN chart.house_connections : ConnectionTotal(key) >= 3}
        /\ \A i, j \in 1..Len(sf) : sf[i].houses = sf[j].houses => i = j
        /\ \A i \in 1..Len(sf) :
              /\ sf[i].total = ConnectionTotal(sf[i].houses)
              /\ sf[i].positive = chart.house_connections[sf[i].houses].plus
              /\ sf[i].negative = chart.house_connections[sf[i].houses].minus
              /\ sf[i].neutral = chart.house_connections[sf[i].houses].neutral
        /\ \A i \in 1..(Len(sf) - 1) : sf[i].total >= sf[i + 1].total

\* C17 as stated: the strong formulas are exactly the pairs of total >= 3, by
\* total descending, and pairs of equal total are listed in ascending pair
\* order, whatever the order in which the aspects created the connections.
C17_TiesInPairOrder ==
    AnalysisReturned =>
        /\ StrongAreTheTotalsFromThree
        /\ \A i, j \in 1..Len(chart.strong_formulas) :
              (i < j /\ chart.strong_formulas[i].total = chart.strong_formulas[j].total)
                 => PairBefore(chart.strong_formulas[i].houses,
                               chart.strong_formulas[j].houses)

\* C17, amended: the strong formulas are exactly the pairs of total >= 3, by
\* total descending, and pairs of equal total are listed in the order in which
\* build_house_connections created their connections.
C17_TiesInCreationOrder ==
    AnalysisReturned =>
        /\ StrongAreTheTotalsFromThree
        /\ \A i, j \in 1..Len(chart.strong_formulas) :
              (i < j /\ chart.strong_formulas[i].total = chart.strong_formulas[j].total)
                 => FirstIndex(chart.connection_order, chart.strong_formulas[i].houses)
                      < FirstIndex(chart.connection_order, chart.strong_formulas[j].houses)

\* two strong formulas of equal total, the one created first listed first
\* although its pair is the greater one
C17_TieAgainstPairOrder ==
    /\ AnalysisReturned
    /\ \E i, j \in 1..Len(chart.strong_formulas) :
          /\ i < j
          /\ chart.strong_formulas[i].total = chart.strong_formulas[j].total
          /\ PairBefore(chart.strong_formulas[j].houses, chart.strong_formulas[i].houses)

-----------------------------------------------------------------------------
(* Properties of calculate_local_natal *)

LocalReturned == op = "calculate_local_natal" /\ pc = "returned"

\* position of a body in PLANETS_ALL
BodyIndex(name) == CHOOSE i \in 1..Len(PLANETS_ALL) : PLANETS_ALL[i] = name

\* the cusps of the two places
CuspsOf(place) == [i \in 1..12 |-> HousesAt(place)[i] * Deg]

\* C18: in calculate_local_natal the longitude, sign, degree in sign, speed and
\* retrograde flag of every body are those of the sky at the birth time,
\* whatever the residence; the cusps, house placements and ruled houses are
\* those of the residence.
C18_BodiesKeepBirthSky ==
    LocalReturned =>
        /\ \A k \in 1..Len(chart.planets) :
              LET e == chart.planets[k]
                  i == BodyIndex(e.name)
              IN  /\ e.longitude = SkyLon[eph.sky][i] * HalfDeg
                  /\ e.sign = SignOf(SkyLon[eph.sky][i] * HalfDeg)
                  /\ e.degree = (SkyLon[eph.sky][i] * HalfDeg) % (30 * Deg)
                  /\ e.speed = SkySpeed[eph.sky][i]
                  /\ e.retro = (SkySpeed[eph.sky][i] < 0)
                  /\ e.house = get_planet_house(e.longitude, CuspsOf(eph.place))
        /\ chart.retro_planets =
              {PLANETS_ALL[i] : i \in {j \in 1..Len(PLANETS_ALL) :
                   SkySpeed[eph.sky][j] < 0 /\ PLANETS_ALL[j] \notin eph.fail}}
        /\ chart.cusps = CuspsOf(eph.place)

\* a relocated chart in which a body stands in another house, and rules other
\* houses, than by the cusps of the birth place
C18_RelocatedHousesDiffer ==
    /\ LocalReturned
    /\ eph.place = "residence" /\ chart.is_relocated
    /\ \E k \in 1..Len(chart.planets) :
          /\ chart.planets[k].house #
                get_planet_house(chart.planets[k].longitude, CuspsOf("birth"))
          /\ chart.planets[k].rules #
                get_planet_ruled_houses(chart.planets[k].name, CuspsOf("birth"),
                                        chart.planets[k].retro)

-----------------------------------------------------------------------------
(* find_retrograde_periods_for_year, one loop iteration at a time *)

\* days of the year that is analysed: 1 is 1 January, YearDays is 31 December
YearDays == 4

\* days before 1 January and after 31 December that a retrograde run can reach
MaxRun == 3

\* RETROGRADE_PLANETS, in the dict's iteration order
RETROGRADE_PLANETS ==
    <<"Mercury", "Venus", "Mars", "Jupiter", "Saturn", "Uranus", "Neptune", "Pluto">>

\* get_planet_speed(planet_id, dt) at 0h of the day: the oracle names the days
\* on which the body it follows moves backwards; on the others it stands
\* still, and the other bodies stand still on every day
get_planet_speed(name, day) ==
    IF name = rp.focus /\ day \in rp.negative THEN -1 ELSE 0

\* the start of the run taken one day early, at the day the search stopped on
run_start_at_stop(search_date) == search_date

\* line 2254: retrograde_start = search_date + timedelta(days=1)
run_start(search_date) == search_date + 1

\* lines 2237-2251: the locals of one planet, and the speed on 1 January
RetroPlanetStart ==
    /\ op = "find_retrograde_periods_for_year" /\ pc = "planet"
    /\ LET initial_speed == get_planet_speed(RETROGRADE_PLANETS[rp.k], 1)
       IN  IF initial_speed < 0
           THEN /\ rp' = [rp EXCEPT !.periods = <<>>, !.current_date = 1,
                                    !.in_retrograde = TRUE,
                                    !.retrograde_start = <<>>,
                                    !.search_date = 0]
                /\ pc' = "back"
           ELSE /\ rp' = [rp EXCEPT !.periods = <<>>, !.current_date = 1,
                                    !.in_retrograde = FALSE,
                                    !.retrograde_start = <<>>]
                /\ pc' = "scan"
    /\ UNCHANGED <<op, eph, exc, fa, rh, tc, mp, call>>
    /\ UNCHANGED <<transitVars, natalVars>>

\* lines 2252-2253: one day further into the year before
RetroSearchBack ==
    /\ op = "find_retrograde_periods_for_year" /\ pc = "back"
    /\ get_planet_speed(RETROGRADE_PLANETS[rp.k], rp.search_date) < 0
    /\ rp' = [rp EXCEPT !.search_date = rp.search_date - 1]
    /\ UNCHANGED <<op, pc, eph, exc, fa, rh, tc, mp, call>>
    /\ UNCHANGED <<transitVars, natalVars>>

\* lines 2252-2254: the search ends and the start of the run is set
RetroSearchBackEnd ==
    /\ op = "find_retrograde_periods_for_year" /\ pc = "back"
    /\ ~(get_planet_speed(RETROGRADE_PLANETS[rp.k], rp.search_date) < 0)
    /\ rp' = [rp EXCEPT !.retrograde_start = <<run_start(rp.search_date)>>]
    /\ pc' = "scan"
    /\ UNCHANGED <<op, eph, exc, fa, rh, tc, mp, call>>
    /\ UNCHANGED <<transitVars, natalVars>>

\* a period that ends on the day the planet is direct again
period_end_at_turn(current_date) == current_date

\* line 2271: "end_date": current_date - timedelta(days=1)
period_end(current_date) == current_date - 1

\* lines 2257-2275: one day of the scan of the year
RetroScanDay ==
    /\ op = "find_retrograde_periods_for_year" /\ pc = "scan"
    /\ rp.current_date <= YearDays
    /\ LET speed == get_planet_speed(RETROGRADE_PLANETS[rp.k], rp.current_date)
       IN  IF ~rp.in_retrograde /\ speed < 0
           THEN rp' = [rp EXCEPT !.in_retrograde = TRUE,
                                 !.retrograde_start = <<rp.current_date>>,
                                 !.current_date = rp.current_date + 1]
           ELSE IF rp.in_retrograde /\ speed >= 0
           THEN rp' = [rp EXCEPT !.in_retrograde = FALSE,
                                 !.periods = Append(rp.periods,
                                     [start_date |-> rp.retrograde_start[1],
                                      end_date |-> period_end(rp.current_date)]),
                                 !.retrograde_start = <<>>,
                                 !.current_date = rp.current_date + 1]
           ELSE rp' = [rp EXCEPT !.current_date = rp.current_date + 1]
    /\ UNCHANGED <<op, pc, eph, exc, fa, rh, tc, mp, call>>
    /\ UNCHANGED <<transitVars, natalVars>>

\* lines 2257 and 2278-2280: the scan is over; a run that is still open is
\* followed into the next year
RetroScanEnd ==
    /\ op = "find_retrograde_periods_for_year" /\ pc = "scan"
    /\ ~(rp.current_date <= YearDays)
    /\ IF rp.in_retrograde /\ rp.retrograde_start # <<>>
       THEN /\ rp' = [rp EXCEPT !.search_date = YearDays + 1]
            /\ pc' = "forward"
       ELSE /\ rp' = rp
            /\ pc' = "append"
    /\ UNCHANGED <<op, eph, exc, fa, rh, tc, mp, call>>
    /\ UNCHANGED <<transitVars, natalVars>>

\* lines 2281-2282: one day further into the next year
RetroSearchForward ==
    /\ op = "find_retrograde_periods_for_year" /\ pc = "forward"
    /\ get_planet_speed(RETROGRADE_PLANETS[rp.k], rp.search_date) < 0
    /\ rp' = [rp EXCEPT !.search_date = rp.search_date + 1]
    /\ UNCHANGED <<op, pc, eph, exc, fa, rh, tc, mp, call>>
    /\ UNCHANGED <<transitVars, natalVars>>

\* lines 2281-2288: the search ends and the last period is appended
RetroSearchForwardEnd ==
    /\ op = "find_retrograde_periods_for_year" /\ pc = "forward"
    /\ ~(get_planet_speed(RETROGRADE_PLANETS[rp.k], rp.search_date) < 0)
    /\ rp' = [rp EXCEPT !.periods = Append(rp.periods,
                            [start_date |-> rp.retrograde_start[1],
                             end_date |-> rp.search_date - 1])]
    /\ pc' = "append"
    /\ UNCHANGED <<op, eph, exc, fa, rh, tc, mp, call>>
    /\ UNCHANGED <<transitVars, natalVars>>

\* lines 2290-2298: the planet's periods are appended; next planet or return
RetroAppend ==
    /\ op = "find_retrograde_periods_for_year" /\ pc = "append"
    /\ rp' = [rp EXCEPT
                !.retrograde_periods =
                    Append(rp.retrograde_periods,
                           [name |-> RETROGRADE_PLANETS[rp.k], periods |-> rp.periods]),
                !.k = IF rp.k < Len(RETROGRADE_PLANETS) THEN rp.k + 1 ELSE rp.k]
    /\ pc' = IF rp.k < Len(RETROGRADE_PLANETS) THEN "planet" ELSE "returned"
    /\ UNCHANGED <<op, eph, exc, fa, rh, tc, mp, call>>
    /\ UNCHANGED <<transitVars, natalVars>>

\* the days on which the oracle can show backward motion: every run ends
\* within MaxRun days of the year
RetroDays == (1 - MaxRun)..(YearDays + MaxRun)

InitRetro ==
    /\ op = "find_retrograde_periods_for_year" /\ pc = "planet" /\ exc = ""
    /\ eph = <<>>
    /\ IdleTransit /\ IdleNatal
    /\ fa = <<>> /\ rh = <<>> /\ tc = <<>> /\ mp = <<>> /\ call = <<>>
    /\ \E focus \in {"Mercury", "Saturn", "Pluto"}, negative \in SUBSET RetroDays :
          rp = [focus |-> focus, negative |-> negative, k |-> 1,
                periods |-> <<>>, current_date |-> 1, in_retrograde |-> FALSE,
                retrograde_start |-> <<>>, search_date |-> 0,
                retrograde_periods |-> <<>>]

NextRetro ==
    \/ RetroPlanetStart
    \/ RetroSearchBack
    \/ RetroSearchBackEnd
    \/ RetroScanDay
    \/ RetroScanEnd
    \/ RetroSearchForward
    \/ RetroSearchForwardEnd
    \/ RetroAppend

SpecRetro == InitRetro /\ [][NextRetro]_vars

-----------------------------------------------------------------------------
(* Properties of find_retrograde_periods_for_year *)

\* the periods reported for the body the oracle follows
FocusPeriods ==
    LET i == CHOOSE j \in 1..Len(rp.retrograde_periods) :
                 rp.retrograde_periods[j].name = rp.focus
    IN  rp.retrograde_periods[i].periods

\* the contiguous run of days of negative speed around day d
RunFirst(d) ==
    CHOOSE a \in (0 - MaxRun)..d :
        /\ \A x \in a..d : x \in rp.negative
        /\ (a - 1) \notin rp.negative

RunLast(d) ==
    CHOOSE b \in d..(YearDays + MaxRun + 1) :
        /\ \A x \in d..b : x \in rp.negative
        /\ (b + 1) \notin rp.negative

\* C19: a body retrograde on 1 January has its first period start on the first
\* day of the run of negative-speed days that contains 1 January; a body
\* retrograde on 31 December has its last period end on the last day of the
\* run that goes on into the next year; and a search outward from the year
\* never goes past a day whose speed is not negative.
C19_OpenPeriodsFollowTheRun ==
    op = "find_retrograde_periods_for_year" =>
        /\ pc = "back" =>
              \A d \in (rp.search_date + 1)..1 : d \in rp.negative
        /\ pc = "forward" =>
              \A d \in YearDays..(rp.search_date - 1) : d \in rp.negative
        /\ pc = "returned" =>
              /\ 1 \in rp.negative =>
                    /\ FocusPeriods # <<>>
                    /\ FocusPeriods[1].start_date = RunFirst(1)
              /\ YearDays \in rp.negative =>
                    /\ FocusPeriods # <<>>
                    /\ FocusPeriods[Len(FocusPeriods)].end_date = RunLast(YearDays)

\* a year that begins inside one retrograde run and ends inside another, both
\* reaching two days or more beyond the year
C19_OpenAtBothEnds ==
    /\ op = "find_retrograde_periods_for_year" /\ pc = "returned"
    /\ {-1, 0, 1, YearDays, YearDays + 1, YearDays + 2} \subseteq rp.negative
    /\ Len(FocusPeriods) = 2
    /\ FocusPeriods[1].start_date < 0
    /\ FocusPeriods[2].end_date > YearDays + 1

-----------------------------------------------------------------------------
(* find_next_new_moon and find_next_full_moon, one sample at a time *)

\* elongations are counted in half degrees, times in hours after from_date
FullCircle == 360 * 2

\* (moon_lon - sun_lon) % 360 at t hours after from_date: the oracle gives the
\* elongation at from_date and the Moon's gain on the Sun in half degrees a day
elongation_at(t) == (mp.e0 + ((mp.rate * t) \div 24)) % FullCircle

\* lines 2074 and 2101: the test of the daily sample
CoarseWindow(elongation) ==
    IF op = "find_next_new_moon"
    THEN elongation < 12 * 2 \/ elongation > 348 * 2
    ELSE 168 * 2 < elongation /\ elongation < 192 * 2

\* lines 2081 and 2108: the test of the hourly sample
FineWindow(elongation) ==
    IF op = "find_next_new_moon"
    THEN elongation < 6 * 2 \/ elongation > 354 * 2
    ELSE 174 * 2 < elongation /\ elongation < 186 * 2

\* lines 2069-2074 and 2096-2101: one daily sample
MoonScanDay ==
    /\ op \in {"find_next_new_moon", "find_next_full_moon"} /\ pc = "scan"
    /\ mp.day_offset < 30
    /\ IF CoarseWindow(elongation_at(mp.day_offset * 24))
       THEN /\ mp' = [mp EXCEPT !.hour = 0]
            /\ pc' = "refine"
       ELSE /\ mp' = [mp EXCEPT !.day_offset = mp.day_offset + 1]
            /\ pc' = "scan"
    /\ UNCHANGED <<op, eph, exc, fa, rh, tc, rp, call>>
    /\ UNCHANGED <<transitVars, natalVars>>

\* lines 2085 and 2112: no sample qualified in thirty days
MoonScanEnd ==
    /\ op \in {"find_next_new_moon", "find_next_full_moon"} /\ pc = "scan"
    /\ ~(mp.day_offset < 30)
    /\ mp' = [mp EXCEPT !.result = IF op = "find_next_new_moon" THEN 29 * 24 ELSE 15 * 24,
                        !.fallback = TRUE]
    /\ pc' = "returned"
    /\ UNCHANGED <<op, eph, exc, fa, rh, tc, rp, call>>
    /\ UNCHANGED <<transitVars, natalVars>>

\* lines 2076-2083 and 2103-2110: one hourly sample; the first one inside the
\* fine window is returned through julian_to_datetime(check_jd_h)
MoonRefineHour ==
    /\ op \in {"find_next_new_moon", "find_next_full_moon"} /\ pc = "refine"
    /\ mp.hour < 24
    /\ IF FineWindow(elongation_at(mp.day_offset * 24 + mp.hour))
       THEN LET r == julian_to_datetime(<<(mp.day_offset * 24 + mp.hour) * HourJd>>)
            IN  IF r.raised # ""
                THEN /\ exc' = r.raised /\ pc' = "raised" /\ mp' = mp
                ELSE /\ exc' = exc /\ pc' = "returned"
                     /\ mp' = [mp EXCEPT !.result = r.value \div HourJd]
       ELSE /\ mp' = [mp EXCEPT !.hour = mp.hour + 1]
            /\ pc' = "refine"
            /\ exc' = exc
    /\ UNCHANGED <<op, eph, fa, rh, tc, rp, call>>
    /\ UNCHANGED <<transitVars, natalVars>>

\* lines 2076 and 2103: the day had no hourly sample inside the fine window
MoonRefineEnd ==
    /\ op \in {"find_next_new_moon", "find_next_full_moon"} /\ pc = "refine"
    /\ ~(mp.hour < 24)
    /\ mp' = [mp EXCEPT !.day_offset = mp.day_offset + 1]
    /\ pc' = "scan"
    /\ UNCHANGED <<op, eph, exc, fa, rh, tc, rp, call>>
    /\ UNCHANGED <<transitVars, natalVars>>

\* the Moon gains between 11.5 and 12.5 degrees a day on the Sun
MoonRates == {23, 24, 25}

InitMoon ==
    /\ op \in {"find_next_new_moon", "find_next_full_moon"}
    /\ pc = "scan" /\ exc = ""
    /\ eph = <<>>
    /\ IdleTransit /\ IdleNatal
    /\ fa = <<>> /\ rh = <<>> /\ tc = <<>> /\ rp = <<>> /\ call = <<>>
    /\ \E e0 \in 0..(FullCircle - 1), rate \in MoonRates :
          mp = [e0 |-> e0, rate |-> rate, day_offset |-> 0, hour |-> 0,
                result |-> 0, fallback |-> FALSE]

NextMoon ==
    \/ MoonScanDay
    \/ MoonScanEnd
    \/ MoonRefineHour
    \/ MoonRefineEnd

SpecMoon == InitMoon /\ [][NextMoon]_vars

-----------------------------------------------------------------------------
(* Properties of find_next_new_moon and find_next_full_moon *)

\* the elongation of the phase the function looks for
PhaseAngle == IF op = "find_next_new_moon" THEN 0 ELSE 180 * 2

\* the distance of an elongation from the phase, in half degrees
PhaseDistance(elongation) ==
    Min2((elongation - PhaseAngle) % FullCircle, (PhaseAngle - elongation) % FullCircle)

\* the hours after from_date at which the elongation passes the phase
PhaseHours ==
    {t \in 0..(31 * 24) :
        /\ PhaseDistance(elongation_at(t)) <= 1
        /\ (elongation_at(t) - PhaseAngle) % FullCircle <= 1}

\* C20: find_next_new_moon and find_next_full_moon return the time of the
\* exact phase next after from_date: the elongation at the returned time is 0
\* (180) degrees up to what the Moon gains in the hour of the last refinement
\* step, and no exact phase lies between from_date and the returned time.
C20_ReturnsExactPhase ==
    (op \in {"find_next_new_moon", "find_next_full_moon"} /\ pc = "returned") =>
        /\ PhaseDistance(elongation_at(mp.result)) <= 2
        /\ \A t \in PhaseHours : t >= mp.result - 1

-----------------------------------------------------------------------------
(* The rules of get_planet_ruled_houses, house by house *)

\* the parts of the house that starts at cusp_start which lie in the signs after
\* the cusp sign: the offset from the cusp at which each begins
SegmentOffsets(cusp_start, size) ==
    {30 * Deg - (cusp_start % (30 * Deg)) + k * 30 * Deg : k \in 0..11}
        \cap (0..(size - 1))

SegmentLength(offset, size) == Min2(30 * Deg, size - offset)

\* a body's signs: its forward signs, and its retrograde sign when retro
BodySigns(body, retro) ==
    PLANET_SIGNS(body) \cup (IF retro THEN PLANET_SIGNS_RETRO(body) ELSE {})

\* C23: for the ten planets the result contains house h iff the sign on h's
\* starting cusp is one of the body's signs, or some sign segment inside h after
\* the cusp sign that is a full sign, or longer than half of h's arc, or longer
\* than 13.5 degrees, lies in one of the body's signs.
C23_RuledIffCuspOrSegment ==
    (RuledReturned /\ rh.planet_name \in TenPlanets) =>
        \A h \in 1..12 :
            LET cusp_start == rh.cusps[h]
                size == (rh.cusps[(h % 12) + 1] - cusp_start) % (360 * Deg)
                signs == BodySigns(rh.planet_name, rh.is_retrograde)
            IN  (h \in Range(rh.result)) <=>
                   \/ SignOf(cusp_start) \in signs
                   \/ \E o \in SegmentOffsets(cusp_start, size) :
                         /\ SignOf((cusp_start + o) % (360 * Deg)) \in signs
                         /\ \/ SegmentLength(o, size) = 30 * Deg
                            \/ 2 * SegmentLength(o, size) > size
                            \/ 2 * SegmentLength(o, size) > 27 * Deg

-----------------------------------------------------------------------------
(* get_planet_house, one pass of its loop at a time *)

InHouse_closed(longitude, cusp1, cusp2) ==
    IF cusp2 < cusp1
    THEN longitude >= cusp1 \/ longitude <= cusp2
    ELSE cusp1 <= longitude /\ longitude <= cusp2

\* the test of one house: the arc from cusp1 to cusp2, through 0 when it wraps
InHouse(longitude, cusp1, cusp2) ==
    IF cusp2 < cusp1
    THEN longitude >= cusp1 \/ longitude < cusp2
    ELSE cusp1 <= longitude /\ longitude < cusp2

HouseCalled == op = "get_planet_house" /\ pc = "loop" /\ call.i < 12

\* the arc of house i + 1 does not hold the longitude: on to the next house
HouseNext ==
    /\ HouseCalled
    /\ ~InHouse(call.longitude, call.cusps[call.i + 1], call.cusps[((call.i + 1) % 12) + 1])
    /\ call' = [call EXCEPT !.i = @ + 1]
    /\ UNCHANGED <<op, pc, eph, exc, fa, rh, tc, rp, mp>>
    /\ UNCHANGED <<transitVars, natalVars>>

\* return i + 1
HouseFound ==
    /\ HouseCalled
    /\ InHouse(call.longitude, call.cusps[call.i + 1], call.cusps[((call.i + 1) % 12) + 1])
    /\ call' = [call EXCEPT !.result = call.i + 1]
    /\ pc' = "returned"
    /\ UNCHANGED <<op, eph, exc, fa, rh, tc, rp, mp>>
    /\ UNCHANGED <<transitVars, natalVars>>

\* the loop ran out: return 1
HouseDefault ==
    /\ op = "get_planet_house" /\ pc = "loop" /\ call.i = 12
    /\ call' = [call EXCEPT !.result = 1, !.by_default = TRUE]
    /\ pc' = "returned"
    /\ UNCHANGED <<op, eph, exc, fa, rh, tc, rp, mp>>
    /\ UNCHANGED <<transitVars, natalVars>>

\* the longitudes tried with a cusp set: each cusp, its two neighbours, the two
\* ends of the circle and a point every 15 degrees
HouseLongitudes(c) ==
    {(c[i] + d) % Circle : i \in 1..12, d \in {Circle - 1, 0, 1}}
        \cup {0, Circle - 1} \cup {k * 15 * Deg : k \in 0..23}

InitHouse ==
    /\ op = "get_planet_house"
    /\ pc = "loop"
    /\ exc = ""
    /\ eph = <<>>
    /\ \E k \in 0..Len(HousePatterns), start \in CuspStarts :
       \E c \in IF k = 0 THEN LooseCusps \cup TightCusps
                ELSE {CuspsFrom(start, HousePatterns[k], 12)} :
       \E longitude \in HouseLongitudes(c) :
          /\ k = 0 => start = 0
          /\ call = [longitude |-> longitude, cusps |-> c, i |-> 0,
                     result |-> 0, by_default |-> FALSE]
    /\ IdleTransit
    /\ IdleNatal
    /\ fa = <<>> /\ rh = <<>> /\ tc = <<>> /\ rp = <<>> /\ mp = <<>>

NextHouse ==
    \/ HouseNext
    \/ HouseFound
    \/ HouseDefault

SpecHouse == InitHouse /\ [][NextHouse]_vars

\* the loop and the operator used by the other calls agree on the result
HouseAgrees ==
    (op = "get_planet_house" /\ pc = "returned") =>
        call.result = get_planet_house(call.longitude, call.cusps)

HouseReturned ==
    op = "get_planet_house" /\ pc = "returned" /\ HouseCuspsInvariant(call.cusps)

\* the houses whose right-open arc [cusp_i, cusp_(i+1)) holds the longitude,
\* measured along the circle from cusp_i
ArcsHolding(longitude, c) ==
    {h \in 1..12 :
        (longitude - c[h]) % Circle < (c[(h % 12) + 1] - c[h]) % Circle}

\* C24: for cusps in cyclic order and a longitude in [0, 360) get_planet_house
\* returns the one house whose right-open arc holds the longitude, and never
\* comes to the default return after the loop.
C24_HouseIsTheArc ==
    HouseReturned =>
        /\ ArcsHolding(call.longitude, call.cusps) = {call.result}
        /\ ~call.by_default

\* a longitude on the cusp that ends the house which wraps 0 degrees
C24_OnCuspAfterWrap ==
    /\ HouseReturned
    /\ \E h \in 1..12 :
          /\ call.cusps[(h % 12) + 1] < call.cusps[h]
          /\ call.longitude = call.cusps[(h % 12) + 1]
          /\ call.result = (h % 12) + 1

-----------------------------------------------------------------------------
(* The counters of build_house_connections *)

\* the aspects of one nature that link the two houses of a pair
AspectsLinking(aspects, key, nature) ==
    {i \in 1..Len(aspects) :
        aspects[i].nature = nature /\ key \in LinkedPairs(aspects[i])}

\* C25: every key of build_house_connections is a pair of distinct houses
\* h1 < h2 in 1..12, and one aspect adds exactly one to the counter of its
\* nature for each unordered pair it links, also when both houses are among the
\* houses of both bodies.
C25_OncePerUnorderedPair ==
    AnalysisReturned =>
        \A key \in DOMAIN chart.house_connections :
            /\ key[1] \in 1..12 /\ key[2] \in 1..12 /\ key[1] < key[2]
            /\ chart.house_connections[key].plus
                  = Cardinality(AspectsLinking(chart.aspects, key, "+"))
            /\ chart.house_connections[key].minus
                  = Cardinality(AspectsLinking(chart.aspects, key, "-"))
            /\ chart.house_connections[key].neutral
                  = Cardinality(AspectsLinking(chart.aspects, key, "+-"))

-----------------------------------------------------------------------------
(* get_planet_ruled_houses called again and again: the module's tables *)

MaxCalls == 3

\* the module-level tables as the interpreter holds them between calls
StaticTables ==
    [PLANET_SIGNS |-> [name \in TenPlanets |-> PLANET_SIGNS(name)],
     PLANET_SIGNS_RETRO |->
        [name \in {n \in TenPlanets : PLANET_SIGNS_RETRO(n) # {}} |->
            PLANET_SIGNS_RETRO(name)],
     SIGN_RULERS_RETRO |->
        [sign \in {s \in Range(ZODIAC_SIGNS) : SIGN_RULERS_RETRO(s) # ""} |->
            SIGN_RULERS_RETRO(sign)],
     ORB_MATRIX |-> ORB_MATRIX]

\* the retrograde sign the call adds to its list of signs
ExtraSigns(tables, planet_name, is_retrograde) ==
    IF is_retrograde /\ planet_name \in DOMAIN tables.PLANET_SIGNS_RETRO
    THEN tables.PLANET_SIGNS_RETRO[planet_name]
    ELSE {}

\* signs bound to the list of the table itself: the append reaches the table
TablesAfterCall_shared(tables, planet_name, is_retrograde) ==
    IF planet_name \in DOMAIN tables.PLANET_SIGNS
    THEN [tables EXCEPT !.PLANET_SIGNS[planet_name] =
             @ \cup ExtraSigns(tables, planet_name, is_retrograde)]
    ELSE tables

\* the tables after one call: signs is a new list, list(PLANET_SIGNS.get(...)),
\* and signs.append(extra) is the only write of the body
TablesAfterCall(tables, planet_name, is_retrograde) ==
    tables

\* signs, after the append
CallSigns(tables, planet_name, is_retrograde) ==
    (IF planet_name \in DOMAIN tables.PLANET_SIGNS
     THEN tables.PLANET_SIGNS[planet_name] ELSE {})
        \cup ExtraSigns(tables, planet_name, is_retrograde)

\* sign in signs, or the sign's retrograde co-ruler is the retrograde planet
SignRuledIn(tables, signs, planet_name, is_retrograde, sign) ==
    \/ sign \in signs
    \/ /\ sign \in DOMAIN tables.SIGN_RULERS_RETRO
       /\ tables.SIGN_RULERS_RETRO[sign] = planet_name
       /\ is_retrograde

RECURSIVE WalkSignsIn(_, _, _, _, _, _, _)
\* the while loop over the signs inside a house, reading the given tables
WalkSignsIn(tables, signs, planet_name, is_retrograde, size, current_pos0, remaining) ==
    IF ~(10 * remaining > Deg) THEN FALSE
    ELSE LET current_pos == current_pos0 % (360 * Deg)
             deg == deg_in_house(current_pos, remaining)
         IN  \/ /\ SegmentQualifies(deg, size)
                /\ SignRuledIn(tables, signs, planet_name, is_retrograde,
                               SignOf(current_pos))
             \/ WalkSignsIn(tables, signs, planet_name, is_retrograde, size,
                            current_pos + deg, remaining - deg)

\* the value one call returns when the tables are as given
RuledHousesWith(tables, planet_name, cusps, is_retrograde) ==
    LET signs == CallSigns(tables, planet_name, is_retrograde)
        Rules(h) ==
            LET cusp_start == cusps[h]
                size == house_size(cusp_start, cusps[(h % 12) + 1])
                deg_in_cusp_sign == 30 * Deg - (cusp_start % (30 * Deg))
            IN  \/ SignRuledIn(tables, signs, planet_name, is_retrograde,
                               SignOf(cusp_start))
                \/ WalkSignsIn(tables, signs, planet_name, is_retrograde, size,
                               cusp_start + deg_in_cusp_sign,
                               size - deg_in_cusp_sign)
    IN  IF planet_name = "Lilith" THEN <<8>>
        ELSE IF planet_name = "NorthNode" THEN <<>>
        ELSE SortedList({h \in 1..12 : Rules(h)})

\* the cusp sets of the repeated calls
CallCusps ==
    {CuspsFrom(0, HousePatterns[1], 12), CuspsFrom(260 * Deg, HousePatterns[5], 12)}

\* one more call of get_planet_ruled_houses in the same interpreter
RuledCallAgain ==
    /\ op = "get_planet_ruled_houses again"
    /\ call.n < MaxCalls
    /\ \E planet_name \in Range(PLANETS_ALL), is_retrograde \in BOOLEAN,
          cusps \in CallCusps :
          call' = [n |-> call.n + 1,
                   tables |-> TablesAfterCall(call.tables, planet_name, is_retrograde),
                   prev |-> call.last,
                   last |-> <<[planet_name |-> planet_name, cusps |-> cusps,
                               is_retrograde |-> is_retrograde,
                               result |-> RuledHousesWith(call.tables, planet_name,
                                                          cusps, is_retrograde)]>>]
    /\ pc' = "returned"
    /\ UNCHANGED <<op, eph, exc, fa, rh, tc, rp, mp>>
    /\ UNCHANGED <<transitVars, natalVars>>

InitCalls ==
    /\ op = "get_planet_ruled_houses again"
    /\ pc = "start"
    /\ exc = ""
    /\ eph = <<>>
    /\ call = [n |-> 0, tables |-> StaticTables, prev |-> <<>>, last |-> <<>>]
    /\ IdleTransit
    /\ IdleNatal
    /\ fa = <<>> /\ rh = <<>> /\ tc = <<>> /\ rp = <<>> /\ mp = <<>>

NextCalls == RuledCallAgain

SpecCalls == InitCalls /\ [][NextCalls]_vars

CallReturned == op = "get_planet_ruled_houses again" /\ pc = "returned"

\* C26: no call of get_planet_ruled_houses changes PLANET_SIGNS,
\* PLANET_SIGNS_RETRO, SIGN_RULERS_RETRO or ORB_MATRIX, and after any sequence
\* of calls a call with is_retrograde = False returns the houses the same call
\* returns when it is the first: the retrograde sign of an earlier call is gone.
C26_TablesStayStatic ==
    CallReturned =>
        /\ call.tables = StaticTables
        /\ ~call.last[1].is_retrograde =>
              call.last[1].result
                 = RuledHousesWith(StaticTables, call.last[1].planet_name,
                                   call.last[1].cusps, FALSE)

\* a direct call for a planet right after a retrograde call for the same planet
\* and cusps that returned more houses
C26_DirectAfterRetrograde ==
    /\ CallReturned
    /\ call.prev # <<>>
    /\ call.prev[1].is_retrograde /\ ~call.last[1].is_retrograde
    /\ call.prev[1].planet_name = call.last[1].planet_name
    /\ call.prev[1].cusps = call.last[1].cusps
    /\ call.prev[1].result # call.last[1].result

\* with the tables as loaded the value is the one the other calls compute
CallsAgree ==
    CallReturned =>
        (call.tables = StaticTables =>
            call.last[1].result
               = get_planet_ruled_houses(call.last[1].planet_name,
                                         call.last[1].cusps,
                                         call.last[1].is_retrograde))

-----------------------------------------------------------------------------
(* find_exact_aspect_time.  Its clock counts 1/1024 of an hour; the body of *)
(* the call moves at a constant speed and passes the point call.passes at   *)
(* the time call.at.                                                        *)

ScanHours == 6

\* precision_jd * 60, the hour between two samples of the scan
HourTicks == 1024

\* the speeds of the body, in lon-units per tick: the Moon and the Sun, forward
\* and backward
ExactSpeeds == {40, -40, 3, -3}

\* swe.calc_ut(jd, transit_planet_id, ...)[0][0]
ExactLon(c, t) == (c.passes + c.speed * (t - c.at) + 4 * Circle) % Circle

\* target_lons
target_lons(natal_lon_, angle) ==
    <<(natal_lon_ + angle * Deg) % Circle, (natal_lon_ - angle * Deg + Circle) % Circle>>

\* diff = transit_lon - target_lon, brought into -180..180
WrappedDiff(lon, target_lon) ==
    LET diff == lon - target_lon
    IN  IF diff > 180 * Deg THEN diff - Circle
        ELSE IF diff < -180 * Deg THEN diff + Circle
        ELSE diff

\* (prev_diff < 0 and diff >= 0) or (prev_diff > 0 and diff <= 0)
SignChange(prev_diff, diff) ==
    \/ prev_diff < 0 /\ diff >= 0
    \/ prev_diff > 0 /\ diff <= 0

RECURSIVE Bisect(_, _, _, _, _, _)
\* the 20 passes of the binary search: jd_mid of the pass that breaks, or of
\* the last pass
Bisect(c, target_lon, prev_diff, left, right, passes) ==
    LET jd_mid == (left + right) \div 2
        mid_diff == WrappedDiff(ExactLon(c, jd_mid), target_lon)
    IN  IF passes = 1 \/ Abs(mid_diff) < (Deg + 99999) \div 100000
        THEN jd_mid
        ELSE IF (mid_diff < 0) = (prev_diff < 0)
             THEN Bisect(c, target_lon, prev_diff, jd_mid, right, passes - 1)
             ELSE Bisect(c, target_lon, prev_diff, left, jd_mid, passes - 1)

ExactScanning ==
    /\ op = "find_exact_aspect_time"
    /\ pc = "scan"
    /\ call.jd < call.jd_end

ExactDiff == WrappedDiff(ExactLon(call, call.jd), target_lons(call.natal_lon, call.aspect_angle)[call.target])

\* one sample of the scan without a sign change: prev_diff = diff, jd += 1 hour
ExactSample ==
    /\ ExactScanning
    /\ ~(call.prev_diff # <<>> /\ SignChange(call.prev_diff[1], ExactDiff))
    /\ call' = [call EXCEPT !.prev_diff = <<ExactDiff>>, !.jd = @ + HourTicks]
    /\ UNCHANGED <<op, pc, eph, exc, fa, rh, tc, rp, mp>>
    /\ UNCHANGED <<transitVars, natalVars>>

\* the sign changed between two samples: refine and return
ExactCross ==
    /\ ExactScanning
    /\ call.prev_diff # <<>> /\ SignChange(call.prev_diff[1], ExactDiff)
    /\ \E target_lon \in {target_lons(call.natal_lon, call.aspect_angle)[call.target]} :
       \E jd_mid \in {Bisect(call, target_lon, call.prev_diff[1],
                             call.jd - HourTicks, call.jd, 20)} :
       \E mid_diff \in {WrappedDiff(ExactLon(call, jd_mid), target_lon)} :
          call' = [call EXCEPT !.result =
                      <<[jd |-> jd_mid, orb |-> Abs(mid_diff),
                         is_applying |-> \/ mid_diff < 0 /\ call.speed > 0
                                         \/ mid_diff > 0 /\ call.speed < 0]>>]
    /\ pc' = "returned"
    /\ UNCHANGED <<op, eph, exc, fa, rh, tc, rp, mp>>
    /\ UNCHANGED <<transitVars, natalVars>>

\* the while loop of the first target ended: the scan starts again for the second
ExactNextTarget ==
    /\ op = "find_exact_aspect_time" /\ pc = "scan"
    /\ call.jd >= call.jd_end /\ call.target = 1
    /\ call' = [call EXCEPT !.target = 2, !.jd = call.jd_start, !.prev_diff = <<>>]
    /\ UNCHANGED <<op, pc, eph, exc, fa, rh, tc, rp, mp>>
    /\ UNCHANGED <<transitVars, natalVars>>

\* return None
ExactNone ==
    /\ op = "find_exact_aspect_time" /\ pc = "scan"
    /\ call.jd >= call.jd_end /\ call.target = 2
    /\ pc' = "returned"
    /\ UNCHANGED <<op, eph, exc, call, fa, rh, tc, rp, mp>>
    /\ UNCHANGED <<transitVars, natalVars>>

\* the points the body can pass during the scan: a target, or the point
\* opposite a target
PassedPoints(natal_lon_, angle) ==
    {(target_lons(natal_lon_, angle)[k] + o) % Circle : k \in 1..2, o \in {0, 180 * Deg}}

InitExact ==
    /\ op = "find_exact_aspect_time"
    /\ pc = "scan"
    /\ exc = ""
    /\ eph = <<>>
    /\ \E natal_lon_ \in {350 * Deg, 27 * Deg}, k \in 1..Len(ASPECTS),
          speed \in ExactSpeeds, at \in {j * (HourTicks \div 2) + 100 : j \in 0..(2 * ScanHours)} :
       \E passes \in PassedPoints(natal_lon_, ASPECTS[k]) :
          call = [natal_lon |-> natal_lon_, aspect_angle |-> ASPECTS[k],
                  speed |-> speed, passes |-> passes, at |-> at,
                  jd_start |-> 0, jd_end |-> ScanHours * HourTicks,
                  target |-> 1, jd |-> 0, prev_diff |-> <<>>, result |-> <<>>]
    /\ IdleTransit
    /\ IdleNatal
    /\ fa = <<>> /\ rh = <<>> /\ tc = <<>> /\ rp = <<>> /\ mp = <<>>

NextExact ==
    \/ ExactSample
    \/ ExactCross
    \/ ExactNextTarget
    \/ ExactNone

SpecExact == InitExact /\ [][NextExact]_vars

ExactReturned ==
    op = "find_exact_aspect_time" /\ pc = "returned" /\ call.result # <<>>

\* how far the body is from the nearer of natal_lon + angle and natal_lon - angle
\* at the time t
ExactOrbAt(t) ==
    Min2(AngSep(ExactLon(call, t), target_lons(call.natal_lon, call.aspect_angle)[1]),
         AngSep(ExactLon(call, t), target_lons(call.natal_lon, call.aspect_angle)[2]))

\* C27: find_exact_aspect_time returns a time only where the transiting
\* longitude is natal_lon + aspect_angle or natal_lon - aspect_angle, with an
\* orb near 0 (what the body moves in two ticks of the clock); the jump of the
\* wrapped difference between +180 and -180 at the point opposite a target is
\* never returned as an exact aspect.
C27_ReturnsOnlyExactAspects ==
    ExactReturned =>
        /\ ExactOrbAt(call.result[1].jd) <= 2 * Abs(call.speed)
        /\ call.result[1].orb <= 2 * Abs(call.speed)

-----------------------------------------------------------------------------
(* The periods of find_retrograde_periods_for_year within the year *)

\* the speed the oracle shows for a planet on a day, as the scan sampled it
SampledNegative(name, day) == name = rp.focus /\ day \in rp.negative

\* C28: for each planet the periods returned are in chronological order and
\* pairwise disjoint, each starts no later than it ends, and a day of the
\* queried year lies inside some period iff the planet's speed sampled on that
\* day is negative.
C28_PeriodsCoverNegativeDays ==
    (op = "find_retrograde_periods_for_year" /\ pc = "returned") =>
        \A j \in 1..Len(rp.retrograde_periods) :
            LET periods == rp.retrograde_periods[j].periods
                name == rp.retrograde_periods[j].name
            IN  /\ \A i \in 1..Len(periods) :
                      periods[i].start_date <= periods[i].end_date
                /\ \A i \in 1..(Len(periods) - 1) :
                      periods[i].end_date < periods[i + 1].start_date
                /\ \A d \in 1..YearDays :
                      (\E i \in 1..Len(periods) :
                          periods[i].start_date <= d /\ d <= periods[i].end_date)
                          <=> SampledNegative(name, d)

\* a year with two retrograde runs that both lie inside it, and a direct day
\* between them
C28_TwoRunsInsideTheYear ==
    /\ op = "find_retrograde_periods_for_year" /\ pc = "returned"
    /\ Len(FocusPeriods) = 2
    /\ FocusPeriods[1].start_date >= 1
    /\ FocusPeriods[2].end_date <= YearDays
    /\ \E d \in 1..YearDays :
          FocusPeriods[1].end_date < d /\ d < FocusPeriods[2].start_date

-----------------------------------------------------------------------------
(* get_transit_aspects: the aspects of the transiting bodies to the natal   *)
(* ones, one pair of the double loop at a time                              *)

\* ASPECTS: the largest orb of each aspect, in degrees
ASPECT_MAX_ORBS == <<8, 6, 8, 8, 8>>

\* calculate_aspect(pos1, pos2): <<>> for None, else the angle and the orb
calculate_aspect(pos1, pos2) ==
    LET diff == AngSep(pos1, pos2)
        hits == {k \in 1..Len(ASPECTS) :
                    Abs(diff - ASPECTS[k] * Deg) <= ASPECT_MAX_ORBS[k] * Deg}
    IN  IF hits = {} THEN <<>>
        ELSE LET k == CHOOSE j \in hits : \A i \in hits : j <= i
             IN  <<[exact_angle |-> ASPECTS[k], orb |-> Abs(diff - ASPECTS[k] * Deg)]>>

\* round(orb, 2), counted in hundredths of a degree
RoundedOrb(orb) == (200 * orb + Deg) \div (2 * Deg)

\* applying = t_pos.speed > 0
applying_flag(t_pos) == t_pos.speed > 0

TransitPairs == call.t <= Len(call.transits)

\* one pair (t_id, n_id) of the double loop: an Aspect is appended when
\* calculate_aspect finds one
TransitAspectsPair ==
    /\ op = "get_transit_aspects" /\ pc = "pairs" /\ TransitPairs
    /\ LET t_pos == call.transits[call.t]
           n_pos == call.natal[call.n]
           aspect_data == calculate_aspect(t_pos.longitude, n_pos.longitude)
           last == call.n = Len(call.natal)
       IN  call' = [call EXCEPT
                      !.aspects =
                          IF aspect_data = <<>> THEN @
                          ELSE Append(@, [planet1 |-> t_pos.name,
                                          planet2 |-> n_pos.name,
                                          exact_angle |-> aspect_data[1].exact_angle,
                                          orb |-> RoundedOrb(aspect_data[1].orb),
                                          applying |-> applying_flag(t_pos)]),
                      !.n = IF last THEN 1 ELSE @ + 1,
                      !.t = IF last THEN @ + 1 ELSE @]
    /\ UNCHANGED <<op, pc, eph, exc, fa, rh, tc, rp, mp>>
    /\ UNCHANGED <<transitVars, natalVars>>

\* aspects.sort(key=lambda a: a.orb); return aspects
TransitAspectsReturn ==
    /\ op = "get_transit_aspects" /\ pc = "pairs" /\ ~TransitPairs
    /\ call' = [call EXCEPT !.aspects = SortByOrb(@)]
    /\ pc' = "returned"
    /\ UNCHANGED <<op, eph, exc, fa, rh, tc, rp, mp>>
    /\ UNCHANGED <<transitVars, natalVars>>

\* the longitudes of the transiting Moon: on, before and after every exact
\* aspect with a natal body, and far from all of them
TransitLongitudes ==
    {(NatalLon(NatalNames[i]) + s * ASPECTS[k] * Deg + d * Deg + Circle) % Circle :
        i \in 1..Len(NatalNames), k \in 1..Len(ASPECTS), s \in {-1, 1},
        d \in {-20, -5, -1, 0, 1, 5}}

InitTransitAspects ==
    /\ op = "get_transit_aspects"
    /\ pc = "pairs"
    /\ exc = ""
    /\ eph = <<>>
    /\ \E lon \in TransitLongitudes, speed \in {-Deg, 0, Deg}, speed2 \in {-Deg, Deg} :
          call = [natal |-> [i \in 1..Len(NatalNames) |->
                                [name |-> NatalNames[i],
                                 longitude |-> NatalLon(NatalNames[i])]],
                  transits |-> <<[name |-> "Moon", longitude |-> lon, speed |-> speed],
                                 [name |-> "Mars", longitude |-> 149 * Deg,
                                  speed |-> speed2]>>,
                  t |-> 1, n |-> 1, aspects |-> <<>>]
    /\ IdleTransit
    /\ IdleNatal
    /\ fa = <<>> /\ rh = <<>> /\ tc = <<>> /\ rp = <<>> /\ mp = <<>>

NextTransitAspects ==
    \/ TransitAspectsPair
    \/ TransitAspectsReturn

SpecTransitAspects == InitTransitAspects /\ [][NextTransitAspects]_vars

TransitAspectsReturned == op = "get_transit_aspects" /\ pc = "returned"

\* the orb of an aspect when the transiting body stands at lon
AspectOrbAt(asp, lon) ==
    LET n_lon == NatalLon(asp.planet2)
    IN  Abs(AngSep((lon + Circle) % Circle, n_lon) - asp.exact_angle * Deg)

\* the transiting body of an aspect
TransitPos(asp) ==
    call.transits[CHOOSE i \in 1..Len(call.transits) :
                      call.transits[i].name = asp.planet1]

\* the orb is decreasing at the transit moment: a moment later, the body moved
\* on by its speed, it is smaller
OrbDecreasing(asp) ==
    LET t_pos == TransitPos(asp)
        step == IF t_pos.speed > 0 THEN 1 ELSE IF t_pos.speed < 0 THEN -1 ELSE 0
    IN  AspectOrbAt(asp, t_pos.longitude + step) < AspectOrbAt(asp, t_pos.longitude)

\* C29: for every aspect get_transit_aspects returns, applying is true exactly
\* when the transiting body moves toward the exact aspect with the natal point,
\* that is when the orb is decreasing at the transit moment, for direct and
\* retrograde bodies on either side of the exact angle.
C29_ApplyingIffOrbDecreasing ==
    TransitAspectsReturned =>
        \A i \in 1..Len(call.aspects) :
            call.aspects[i].applying <=> OrbDecreasing(call.aspects[i])

-----------------------------------------------------------------------------
(* get_moon_phase_info.  Longitudes and the elongation are counted in half  *)
(* degrees, the illumination in tenths of a percent.                        *)

\* round(illumination, 1) of lines 2022-2026 for the elongation e
illumination(e) ==
    LET part == IF e > FullCircle \div 2 THEN e - FullCircle \div 2 ELSE e
    IN  (2 * part * 1000 + FullCircle \div 2) \div FullCircle

\* the dict get_moon_phase_info returns for the two longitudes
moon_phase_info(moon_lon, sun_lon) ==
    LET elongation == (moon_lon - sun_lon) % FullCircle
        lunar_day == (elongation * 10) \div 244 + 1
    IN  [phase_index |-> (elongation \div 90) % 8,
         lunar_day |-> IF lunar_day > 30 THEN 30 ELSE lunar_day,
         illumination |-> illumination(elongation),
         elongation |-> elongation,
         is_waxing |-> elongation < FullCircle \div 2]

MoonPhaseCall ==
    /\ op = "get_moon_phase_info" /\ pc = "start"
    /\ call' = [call EXCEPT !.result = <<moon_phase_info(call.moon_lon, call.sun_lon)>>]
    /\ pc' = "returned"
    /\ UNCHANGED <<op, eph, exc, fa, rh, tc, rp, mp>>
    /\ UNCHANGED <<transitVars, natalVars>>

InitMoonPhase ==
    /\ op = "get_moon_phase_info"
    /\ pc = "start"
    /\ exc = ""
    /\ eph = <<>>
    /\ \E moon_lon \in 0..(FullCircle - 1), sun_lon \in {0, 200, 561} :
          call = [moon_lon |-> moon_lon, sun_lon |-> sun_lon, result |-> <<>>]
    /\ IdleTransit
    /\ IdleNatal
    /\ fa = <<>> /\ rh = <<>> /\ tc = <<>> /\ rp = <<>> /\ mp = <<>>

NextMoonPhase == MoonPhaseCall

SpecMoonPhase == InitMoonPhase /\ [][NextMoonPhase]_vars

MoonPhaseReturned == op = "get_moon_phase_info" /\ pc = "returned"

\* C30: the illumination get_moon_phase_info reports depends on the elongation
\* e only, lies within 0..100, is 0 at e = 0 and 100 at e = 180, does not fall
\* while the Moon waxes (e < 180) and does not rise while it wanes, and is the
\* same at e and at 360 - e.
C30_IlluminationFollowsPhase ==
    MoonPhaseReturned =>
        LET r == call.result[1]
            e == r.elongation
        IN  /\ r.illumination = illumination(e)
            /\ r.illumination \in 0..1000
            /\ e = 0 => r.illumination = 0
            /\ e = FullCircle \div 2 => r.illumination = 1000
            /\ r.is_waxing = (e < FullCircle \div 2)
            /\ r.is_waxing => illumination(e + 1) >= r.illumination
            /\ ~r.is_waxing => illumination((e + 1) % FullCircle) <= r.illumination
            /\ r.illumination = illumination((FullCircle - e) % FullCircle)

=============================================================================
